---- MODULE Spec2Model ----
(***************************************************************************)
(* State-machine model of the AAudio playback stream                       *)
(* (media/libaaudio/src/client/AudioStreamInternalPlay.cpp): the logical   *)
(* frame positions, flushFromFrame, the offload end-of-stream wait and the *)
(* presentation-end callback guard.                                        *)
(*                                                                         *)
(* Positions are frame counts.  The clock model, the endpoint and the      *)
(* base class AudioStreamInternal are not part of the sources at hand;     *)
(* they are modelled from the design document: the clock model is the      *)
(* position it currently extrapolates (clockPos), the endpoint is its two  *)
(* counters.                                                               *)
(***************************************************************************)
EXTENDS Integers, Sequences, FiniteSets, TLC

\* ------------------------------------------------------------------ bounds
\* Largest value of an endpoint counter or of the clock model's position.
MaxPos == 2
\* Largest numFrames passed to write().
MaxWriteFrames == 2
\* Number of setOffloadEndOfStream() calls in a run.
MaxEos == 2
\* Wake-up handles the service hands out are 1..MaxHandle.
MaxHandle == 2
\* SpecDrain: the largest position a write may reach (the drain is armed when
\* the device buffer is full) and the largest timestamp position.
MaxDrainPos == 4
MaxDrainClock == 1
\* Threads that may invoke the presentation-end path in SpecPE.
NumCallers == 3
\* FixedBlockWriter: block sizes 1..MaxBlockSize, streams of up to MaxStreamLen
\* bytes with values 0..MaxByte.
MaxBlockSize == 2
MaxStreamLen == 3
MaxByte == 1
\* processVariableBlock() followed by statement: bytes a writer is handed
\* in all
MaxFed == 6
\* writeNowWithConversion(): the longest buffer of the caller, the longest
\* first part and the longest second part of the wrapping buffer, in frames.
MaxConvFrames == 9
MaxPartFrames == 9
MaxSecondPart == 1

\* ------------------------------------------------------ program constants
kOffloadSafeMarginMs == 1000
kOffloadFlushFromSafeMarginMs == 100
AAUDIO_MILLIS_PER_SECOND == 1000
CALLBACK_THREAD_NONE == 0
INVALID_HANDLE == 0
\* The opened stream's device parameters (frames, frames per second).
DeviceSampleRate == 1
DeviceFramesPerBurst == 1
DeviceBufferSize == 4
\* Thread id of the single-thread executor's worker.
ExecutorTid == 1

\* open(): the two safety margins.
mOffloadSafeMarginInFrames ==
    (DeviceSampleRate * kOffloadSafeMarginMs) \div AAUDIO_MILLIS_PER_SECOND
        + DeviceFramesPerBurst
mOffloadFlushFromSafeMarginInFrames ==
    (DeviceSampleRate * kOffloadFlushFromSafeMarginMs) \div AAUDIO_MILLIS_PER_SECOND
        + DeviceFramesPerBurst

Max(a, b) == IF a >= b THEN a ELSE b
Min(a, b) == IF a <= b THEN a ELSE b

Accuracies == {"UNDEFINED", "ACCURATE"}

VARIABLES
    \* configuration chosen by the builder, fixed after open()
    performanceMode,            \* getPerformanceMode()
    sharingMode,                \* getSharingMode()
    dataCallbackSet,            \* isDataCallbackSet()
    procSet,                    \* mPresentationEndCallbackProc != nullptr
    \* AudioStreamInternal
    state,                      \* getState()
    handleValid,                \* getServiceHandle() != AAUDIO_HANDLE_INVALID
    clockState,                 \* mClockModel: "starting" | "running" | "stopped"
    clockPos,                   \* mClockModel.convertTimeToPosition(now)
    mNeedCatchUp,               \* mNeedCatchUp.isRequested()
    mFramesOffsetFromService,
    mLastFramesRead,
    mLastFramesWritten,
    \* AudioEndpoint
    rd,                         \* getDataReadCounter()
    wr,                         \* getDataWriteCounter()
    \* AudioStreamInternalPlay
    mOffloadEosPending,
    mDraining,
    mWakeUpHandle,
    mPresentationEndCallbackThread,
    \* the service's TimerQueue: handles registered by drainStream
    svcTimers,
    \* mStreamEndExecutor: has_value(), queued runnables and the worker's position
    mStreamEndExecutor,
    execQueue,
    taskPc,
    curTask,
    \* the thread inside write(), blocked in the drain wait or not
    writerPc,
    \* the thread inside writeNowWithConversion(), between
    \* getEmptyFramesAvailable() and advanceWriteIndex(), or not
    wnwc,
    \* bookkeeping of the run
    eosCount,                   \* setOffloadEndOfStream calls that enqueued a task
    cancelled,                  \* tasks whose wait pause/stop/flush cancelled
    aborted,                    \* the process died (empty optional dereferenced)
    lastCall,                   \* the call that made the last step, with its results
    \* SpecPE: threads invoking the presentation-end path directly
    pePc,
    peRuns,
    \* FixedBlockWriter: the block size, the byte stream and the downstream
    \* processor of a run, and the writers fed with that stream
    fbConfig,
    fbWriters,
    \* the call of processVariableBlock() in progress on writer "a", followed
    \* statement by statement: its locals and what it returned
    pvb,
    \* callbackLoop(): the position of the callback thread, and what became
    \* of the data callback it invoked last
    loopPc,
    loop,
    \* the callback thread holds mStreamMutex from one statement to the next
    \* ("callbackLoop"), or no thread does ("free")
    mStreamMutex

vars == <<performanceMode, sharingMode, dataCallbackSet, procSet, state,
          handleValid, clockState, clockPos,
          mNeedCatchUp, mFramesOffsetFromService, mLastFramesRead,
          mLastFramesWritten, rd, wr, mOffloadEosPending, mDraining,
          mWakeUpHandle, mPresentationEndCallbackThread, svcTimers,
          mStreamEndExecutor, execQueue,
          taskPc, curTask, writerPc, wnwc, eosCount, cancelled, aborted, lastCall,
          pePc, peRuns, fbConfig, fbWriters, pvb, loopPc, loop, mStreamMutex>>

configVars == <<performanceMode, sharingMode, dataCallbackSet, procSet>>
posVars    == <<mFramesOffsetFromService, mLastFramesRead, mLastFramesWritten, rd, wr>>
clockVars  == <<clockState, clockPos>>
drainVars  == <<mDraining, mWakeUpHandle, svcTimers, writerPc>>
execVars   == <<execQueue, taskPc, curTask, mPresentationEndCallbackThread,
                eosCount, cancelled, peRuns>>
peVars     == <<pePc>>
fbVars     == <<fbConfig, fbWriters, pvb>>
openVars   == <<mStreamEndExecutor>>
copyVars   == <<wnwc>>
loopVars   == <<loopPc, loop, mStreamMutex>>

NoCall == [op |-> "none"]

\* No thread is inside writeNowWithConversion().
NoCopy == [pc |-> "idle"]

\* The callback thread has invoked no data callback: signal is what the
\* callback asked for ("data": frames to write, "stop"), written whether its
\* buffer was passed to write(), stopped whether the loop stopped the stream.
NoLoop == [signal |-> "none", written |-> FALSE, stopped |-> FALSE]

\* ------------------------------------------------------- AudioStreamInternal
\* isActive(): the stream is starting or started.
IsActive(st) == st \in {"STARTING", "STARTED"}

IsDisconnected(st) == st = "DISCONNECTED"

\* isClockModelInControl(): an active stream on a free-running endpoint whose
\* clock model has a reference.  The endpoint of the offloaded exclusive
\* stream modelled here is free running (isFreeRunning() holds).
IsClockModelInControl(st, cs) == IsActive(st) /\ cs = "running"

\* ------------------------------------------------------------ the positions
\* getFramesRead(): the value stored in mLastFramesRead and returned.
FramesReadNoMax(last, hw, offset) == hw + offset
FramesRead(last, hw, offset) == Max(last, hw + offset)

\* The hardware read position getFramesRead() starts from.
FramesReadHardware(st, cs, cp, r) ==
    IF IsClockModelInControl(st, cs) THEN cp ELSE r

\* getFramesWritten(): the value stored in mLastFramesWritten and returned.
FramesWrittenRaw(last, w, offset) == w
FramesWritten(last, w, offset) == Max(last, w + offset)

\* advanceClientToMatchServerPosition(serverMargin): the new write counter
\* and the new frame offset.
AdvancedWriteCounterNoMargin(r, serverMargin) == r
AdvancedWriteCounter(r, serverMargin) == r + serverMargin
AdvancedOffsetNoMargin(offset, r, w, serverMargin) == offset + (w - r)
AdvancedOffset(offset, r, w, serverMargin) == offset + (w - (r + serverMargin))

\* mayNeedToDrain(): offloaded stream, clock model in control, device buffer
\* longer than one second.
MayNeedToDrain(st, cs) ==
    /\ performanceMode = "POWER_SAVING_OFFLOADED"
    /\ IsClockModelInControl(st, cs)
    /\ DeviceBufferSize > DeviceSampleRate

\* AudioEndpoint: getFullFramesAvailable() is signed, the empty space is
\* what is left of the capacity.
FullFramesAvailable(r, w) == w - r
EmptyFramesAvailable(r, w) ==
    Max(0, Min(DeviceBufferSize, DeviceBufferSize - FullFramesAvailable(r, w)))

\* mClockModel.convertDeltaPositionToTime(): the time the device takes to
\* consume frames at its sample rate.  Time is counted in milliseconds.
ConvertDeltaPositionToTime(frames) ==
    (frames * AAUDIO_MILLIS_PER_SECOND) \div DeviceSampleRate

RpcResults == {"OK", "NO_SERVICE"}

\* The modes a builder may ask for, as far as this class tells them apart.
PerformanceModes == {"NONE", "POWER_SAVING_OFFLOADED"}
SharingModes == {"SHARED", "EXCLUSIVE"}

\* open() creates mStreamEndExecutor for an offloaded stream without a data
\* callback that has a presentation-end callback.
ExecutorCreated(dcs, ps) ==
    performanceMode = "POWER_SAVING_OFFLOADED" /\ ~dcs /\ ps

\* -------------------------------------------------------- FixedBlockWriter
\* The results of AdapterProcessResult::first.
AAUDIO_CALLBACK_RESULT_CONTINUE == "CONTINUE"
AAUDIO_CALLBACK_RESULT_STOP == "STOP"

\* The downstream processors of a run: one that consumes every block
\* completely and one that fails.
Processors == {"whole", "fail"}

\* FixedBlockProcessor::onProcessFixedBlock(): the bytes consumed, or a
\* negative value.
OnProcessFixedBlock(processor, numBytes) ==
    IF processor = "whole" THEN numBytes ELSE -1

\* A writer after FixedBlockAdapter::open(): storage of mSize bytes, empty.
\* fed counts the bytes of the stream handed over so far, blocks lists the
\* blocks passed to onProcessFixedBlock().
OpenedWriter(size) ==
    [mStorage |-> [i \in 1..size |-> 0], mPosition |-> 0,
     fed |-> 0, blocks |-> <<>>, result |-> AAUDIO_CALLBACK_RESULT_CONTINUE]

\* buffer + n: the bytes of buffer after its first n.
Advance(buffer, n) == SubSeq(buffer, n + 1, Len(buffer))

\* FixedBlockWriter::writeToStorage(): the bytes stored.
BytesToStoreAll(w, size, buffer) == Len(buffer)
BytesToStore(w, size, buffer) == Min(Len(buffer), size - w.mPosition)

\* FixedBlockWriter::writeToStorage(): the writer after the copy.
WriteToStorage(w, size, buffer) ==
    LET bytesToStore == BytesToStore(w, size, buffer)
    IN  [w EXCEPT !.mStorage =
                      [i \in 1..size |->
                          IF i > w.mPosition /\ i <= w.mPosition + bytesToStore
                          THEN buffer[i - w.mPosition]
                          ELSE w.mStorage[i]],
                  !.mPosition = w.mPosition + bytesToStore]

\* The block in storage handed to the processor.
StoredBlock(w, size) == [i \in 1..size |-> w.mStorage[i]]

\* memmove(mStorage, mStorage + bytes, mPosition).
MovedNot(storage, size, bytes, position) == storage
Moved(storage, size, bytes, position) ==
    [i \in 1..size |-> IF i <= position THEN storage[i + bytes] ELSE storage[i]]

\* The guard of the write-through loop: more than one block is left.
WriteThrough(bytesLeft, size) == bytesLeft > size

\* The write-through loop and the saving of the remaining partial block.
RECURSIVE ProcessRest(_, _, _, _)
ProcessRest(w, size, processor, buffer) ==
    IF WriteThrough(Len(buffer), size)
    THEN LET bytesProcessed == OnProcessFixedBlock(processor, size)
             w1 == [w EXCEPT !.blocks = Append(@, SubSeq(buffer, 1, size))]
         IN  IF bytesProcessed < 0
             THEN [w1 EXCEPT !.result = AAUDIO_CALLBACK_RESULT_STOP]
             ELSE ProcessRest([w1 EXCEPT !.fed = @ + bytesProcessed],
                              size, processor, Advance(buffer, bytesProcessed))
    ELSE IF Len(buffer) > 0
         THEN LET w1 == WriteToStorage(w, size, buffer)
              IN  [w1 EXCEPT !.fed = @ + BytesToStore(w, size, buffer),
                             !.result = AAUDIO_CALLBACK_RESULT_CONTINUE]
         ELSE [w EXCEPT !.result = AAUDIO_CALLBACK_RESULT_CONTINUE]

\* FixedBlockWriter::processVariableBlock(): the writer after the call.  fed
\* grows by the second member of the result, the bytes processed.
ProcessVariableBlock(w, size, processor, buffer) ==
    IF w.mPosition > 0
    THEN LET bytesWritten == BytesToStore(w, size, buffer)
             w1 == [WriteToStorage(w, size, buffer) EXCEPT !.fed = @ + bytesWritten]
             rest == Advance(buffer, bytesWritten)
         IN  IF w1.mPosition = size
             THEN LET bytes == OnProcessFixedBlock(processor, size)
                      w2 == [w1 EXCEPT !.blocks = Append(@, StoredBlock(w1, size)),
                                       !.mPosition = 0]
                  IN  IF bytes < 0
                      THEN [w2 EXCEPT !.result = AAUDIO_CALLBACK_RESULT_STOP]
                      ELSE IF bytes # size
                      THEN [w2 EXCEPT !.mPosition = size - bytes,
                                      !.mStorage = Moved(@, size, bytes, size - bytes),
                                      !.result = AAUDIO_CALLBACK_RESULT_CONTINUE]
                      ELSE ProcessRest(w2, size, processor, rest)
             ELSE ProcessRest(w1, size, processor, rest)
    ELSE ProcessRest(w, size, processor, buffer)

\* No call of processVariableBlock() is followed.  Of a call that is, buffer
\* holds the input not yet taken (bytesLeft is its length), numBytes the
\* length of the input, total is bytesTotalProcessed, bytes the last value
\* onProcessFixedBlock() returned and block the block it was given, topUp
\* tells what became of the block completed in storage ("none": no block was
\* completed, "stop", "partial", "whole"), offered, room and stored are the
\* arguments of the last writeToStorage(), mSize - mPosition before it and
\* the bytes it copied, pass is the parity of the iterations the
\* write-through loop has made.
NoBlockCall ==
    [pc |-> "idle", buffer |-> <<>>, numBytes |-> 0, total |-> 0, bytes |-> 0,
     block |-> <<>>, topUp |-> "none", offered |-> 0, room |-> 0, stored |-> 0,
     pass |-> 0]

\* The two writers of a run, fed with the same stream.
Writers == {"a", "b"}

\* No FixedBlockWriter is under observation.
NoWriters ==
    /\ fbConfig = [mSize |-> 1, stream |-> <<>>, processor |-> "whole"]
    /\ fbWriters = [x \in Writers |-> OpenedWriter(1)]
    /\ pvb = NoBlockCall

\* ------------------------------------------------------------------- Init
\* The stream after open(): pm and sm are the performance and sharing modes
\* the builder asked for, dcs tells whether it set a data callback, ps
\* whether it set a presentation-end callback.
OpenedStream(pm, sm, dcs, ps) ==
    /\ performanceMode = pm
    /\ sharingMode = sm
    /\ dataCallbackSet = dcs
    /\ procSet = ps
    /\ state = "OPEN"
    /\ handleValid = TRUE
    /\ clockState = "stopped"
    /\ clockPos = 0
    /\ mNeedCatchUp = FALSE
    /\ mFramesOffsetFromService = 0
    /\ mLastFramesRead = 0
    /\ mLastFramesWritten = 0
    /\ rd = 0
    /\ wr = 0
    /\ mOffloadEosPending = FALSE
    /\ mDraining = FALSE
    /\ mWakeUpHandle = INVALID_HANDLE
    /\ mPresentationEndCallbackThread = CALLBACK_THREAD_NONE
    /\ svcTimers = {}
    /\ mStreamEndExecutor = ExecutorCreated(dcs, ps)
    /\ execQueue = <<>>
    /\ taskPc = "idle"
    /\ curTask = 0
    /\ writerPc = "idle"
    /\ wnwc = NoCopy
    /\ loopPc = "off"
    /\ loop = NoLoop
    /\ mStreamMutex = "free"
    /\ eosCount = 0
    /\ cancelled = {}
    /\ aborted = FALSE
    /\ lastCall = NoCall
    /\ peRuns = 0

\* The stream after open(), no FixedBlockWriter being observed.
OpenedAs(pm, sm, dcs, ps) == OpenedStream(pm, sm, dcs, ps) /\ NoWriters

\* The offloaded exclusive stream after open().
Opened(dcs, ps) == OpenedAs("POWER_SAVING_OFFLOADED", "EXCLUSIVE", dcs, ps)

\* No thread other than the stream's own invokes the presentation-end path.
NoCallers == pePc = [c \in 1..NumCallers |-> "off"]

\* Spec follows a stream whose data and presentation-end callbacks are set.
Init == Opened(TRUE, TRUE) /\ NoCallers

\* The process is alive and the previous call has returned to its caller:
\* the application, the service or the clock may act.
Callable == ~aborted /\ lastCall = NoCall

\* A call returns: its caller has taken the result and the output parameter.
CallReturns ==
    /\ lastCall # NoCall
    /\ lastCall' = NoCall
    /\ UNCHANGED <<configVars, loopVars, openVars, copyVars, fbVars, state, handleValid, clockVars, mNeedCatchUp, posVars,
                   mOffloadEosPending, drainVars, execVars, aborted, peVars>>

\* mAudioEndpoint is set: the endpoint lives from open() to the release of
\* the stream, as the service handle does.
HasEndpoint(hv) == hv

\* --------------------------------------------------------------- getters
GetFramesRead ==
    /\ Callable
    /\ LET hw == FramesReadHardware(state, clockState, clockPos, rd)
           ret == IF HasEndpoint(handleValid)
                  THEN FramesRead(mLastFramesRead, hw, mFramesOffsetFromService)
                  ELSE mLastFramesRead
       IN /\ mLastFramesRead' = ret
          /\ lastCall' = [op |-> "getFramesRead", ret |-> ret]
    /\ UNCHANGED <<configVars, loopVars, openVars, copyVars, fbVars, state, handleValid, clockVars, mNeedCatchUp,
                   mFramesOffsetFromService, mLastFramesWritten, rd, wr,
                   mOffloadEosPending, drainVars, execVars, aborted, peVars>>

GetFramesWritten ==
    /\ Callable
    /\ LET ret == IF HasEndpoint(handleValid)
                  THEN FramesWritten(mLastFramesWritten, wr, mFramesOffsetFromService)
                  ELSE mLastFramesWritten
       IN /\ mLastFramesWritten' = ret
          /\ lastCall' = [op |-> "getFramesWritten", ret |-> ret]
    /\ UNCHANGED <<configVars, loopVars, openVars, copyVars, fbVars, state, handleValid, clockVars, mNeedCatchUp,
                   mFramesOffsetFromService, mLastFramesRead, rd, wr,
                   mOffloadEosPending, drainVars, execVars, aborted, peVars>>

\* ------------------------------------------------- the consumer and the clock
\* Time passes: the clock model's extrapolated position moves on.
ClockAdvance ==
    /\ Callable
    /\ handleValid
    /\ clockState = "running"
    /\ clockPos < MaxPos
    /\ clockPos' = clockPos + 1
    /\ lastCall' = NoCall
    /\ UNCHANGED <<configVars, loopVars, openVars, copyVars, fbVars, state, handleValid, clockState, mNeedCatchUp, posVars,
                   mOffloadEosPending, drainVars, execVars, aborted, peVars>>

\* processCommands() handles a timestamp from the service: the clock model
\* gets a new reference, which may lie before or after its last estimate.
\* A stopped clock model ignores timestamps.
TimestampClockState(cs) == IF cs = "starting" THEN "running" ELSE cs
TimestampClockPos(cs, cp, est) == IF cs = "stopped" THEN cp ELSE est

OnTimestamp(est) ==
    /\ Callable
    /\ handleValid
    /\ clockState # "stopped"
    /\ clockState' = TimestampClockState(clockState)
    /\ clockPos' = TimestampClockPos(clockState, clockPos, est)
    /\ lastCall' = NoCall
    /\ UNCHANGED <<configVars, loopVars, openVars, copyVars, fbVars, state, handleValid, mNeedCatchUp, posVars,
                   mOffloadEosPending, drainVars, execVars, aborted, peVars>>

\* ---------------------------------------------------- lifecycle of the stream
\* requestStart_l() of the base class: the clock model restarts without a
\* reference, the buffers are prepared (prepareBuffersForStart() runs
\* advanceClientToMatchServerPosition(0)), a catch-up is requested for a
\* free-running endpoint and the remote start is issued.
RequestStart ==
    /\ Callable
    /\ handleValid
    /\ state \in {"OPEN", "PAUSED", "FLUSHED", "STOPPED"}
    /\ writerPc = "idle"
    /\ state' = "STARTING"
    /\ clockState' = "starting"
    /\ mNeedCatchUp' = TRUE
    /\ mFramesOffsetFromService' = AdvancedOffset(mFramesOffsetFromService, rd, wr, 0)
    /\ wr' = AdvancedWriteCounter(rd, 0)
    /\ lastCall' = NoCall
    /\ UNCHANGED <<configVars, loopVars, openVars, copyVars, fbVars, handleValid, clockPos, mLastFramesRead, mLastFramesWritten,
                   rd, mOffloadEosPending, drainVars, execVars, aborted, peVars>>

\* onFlushFromServer()
OnFlushFromServerOffset(offset, r, w) == AdvancedOffset(offset, r, w, 0)

\* The state an event from the service moves the stream to.
EventTarget(st) ==
    CASE st = "STARTING" -> "STARTED"
      [] st = "PAUSING"  -> "PAUSED"
      [] st = "FLUSHING" -> "FLUSHED"
      [] st = "STOPPING" -> "STOPPED"
      [] OTHER -> st

\* processCommands() handles the event that completes a transition; the
\* FLUSHED event runs onFlushFromServer().
OnEventFromServer ==
    /\ Callable
    /\ handleValid
    /\ state \in {"STARTING", "PAUSING", "FLUSHING", "STOPPING"}
    /\ state' = EventTarget(state)
    /\ IF state = "FLUSHING"
       THEN /\ mFramesOffsetFromService' =
                   OnFlushFromServerOffset(mFramesOffsetFromService, rd, wr)
            /\ wr' = AdvancedWriteCounter(rd, 0)
       ELSE UNCHANGED <<mFramesOffsetFromService, wr>>
    /\ lastCall' = NoCall
    /\ UNCHANGED <<configVars, loopVars, openVars, copyVars, fbVars, handleValid, clockVars, mNeedCatchUp, mLastFramesRead,
                   mLastFramesWritten, rd, mOffloadEosPending, drainVars, execVars,
                   aborted, peVars>>

\* processCommands() handles a disconnect event.
OnDisconnect ==
    /\ Callable
    /\ handleValid
    /\ state # "DISCONNECTED"
    /\ state' = "DISCONNECTED"
    /\ lastCall' = NoCall
    /\ UNCHANGED <<configVars, loopVars, openVars, copyVars, fbVars, handleValid, clockVars, mNeedCatchUp, posVars,
                   mOffloadEosPending, drainVars, execVars, aborted, peVars>>

\* The stream is released: it is CLOSED, its clock model stopped, the
\* service handle and the endpoint are gone (the counters of the destroyed
\* endpoint are kept at 0).
Release ==
    /\ Callable
    /\ handleValid
    /\ writerPc = "idle"
    /\ handleValid' = FALSE
    /\ state' = "CLOSED"
    /\ clockState' = "stopped"
    /\ rd' = 0
    /\ wr' = 0
    /\ lastCall' = NoCall
    /\ UNCHANGED <<configVars, loopVars, openVars, copyVars, fbVars, clockPos, mNeedCatchUp, mFramesOffsetFromService,
                   mLastFramesRead, mLastFramesWritten, mOffloadEosPending, drainVars,
                   execVars, aborted, peVars>>

\* dropPresentationEndCallback_l(): the flag after the call; the tasks whose
\* wait it cancels are those enqueued and not yet finished while the flag
\* was set.
DropPending(pending) == FALSE
PendingTasks == IF mOffloadEosPending
                THEN {execQueue[i] : i \in 1..Len(execQueue)}
                     \cup (IF taskPc = "waiting" THEN {curTask} ELSE {})
                ELSE {}

\* What requestPause_l() and requestFlush_l() do on a valid handle, in the
\* order of the code: "stopCallback" is stopCallback_l() of the base class
\* (it succeeds), "clockStop" mClockModel.stop(), "setState" setState(),
\* "drop" dropPresentationEndCallback_l() and "remote" the call of the
\* service (pauseStream or flushStream).
PauseStepsRemoteFirst == <<"remote", "stopCallback", "clockStop", "setState", "drop">>
PauseSteps == <<"stopCallback", "clockStop", "setState", "drop", "remote">>

FlushStepsRemoteFirst == <<"remote", "setState", "drop">>
FlushSteps == <<"setState", "drop", "remote">>

\* getServiceHandle() == AAUDIO_HANDLE_INVALID
ServiceHandleInvalidNever(hv) == FALSE
ServiceHandleInvalid(hv) == ~hv

\* The stream as a request finds it: view.sent is what the service and the
\* other threads can see of it when the remote call is issued.
RequestView ==
    [state |-> state, clock |-> clockState, pending |-> mOffloadEosPending,
     notified |-> FALSE, halted |-> FALSE, sent |-> [issued |-> FALSE]]

\* One step of a request that moves the stream to target.
StepEffect(view, step, target) ==
    CASE step = "stopCallback" -> [view EXCEPT !.halted = TRUE]
      [] step = "clockStop"    -> [view EXCEPT !.clock = "stopped"]
      [] step = "setState"     -> [view EXCEPT !.state = target]
      [] step = "drop"         -> [view EXCEPT !.pending = DropPending(view.pending),
                                               !.notified = TRUE]
      [] step = "remote"       -> [view EXCEPT !.sent =
                                      [issued |-> TRUE, state |-> view.state,
                                       clock |-> view.clock, pending |-> view.pending,
                                       notified |-> view.notified,
                                       halted |-> view.halted]]

RECURSIVE RunSteps(_, _, _)
RunSteps(view, steps, target) ==
    IF steps = <<>> THEN view
    ELSE RunSteps(StepEffect(view, Head(steps), target), Tail(steps), target)

\* requestPause_l(): whatever the state of the stream.  The record of the
\* call keeps the result and sent, the stream as it was when pauseStream was
\* issued.
RequestPause_l(rpc) ==
    /\ Callable
    /\ IF ServiceHandleInvalid(handleValid)
       THEN /\ lastCall' = [op |-> "requestPause", result |-> "INVALID_STATE",
                            sent |-> [issued |-> FALSE]]
            /\ UNCHANGED <<state, clockState, mOffloadEosPending, cancelled>>
       ELSE LET view == RunSteps(RequestView, PauseSteps, "PAUSING")
            IN /\ clockState' = view.clock
               /\ state' = view.state
               /\ mOffloadEosPending' = view.pending
               /\ cancelled' = cancelled \cup PendingTasks
               /\ lastCall' = [op |-> "requestPause", result |-> rpc,
                               sent |-> view.sent]
    /\ UNCHANGED <<configVars, loopVars, openVars, copyVars, fbVars, handleValid, clockPos, mNeedCatchUp, posVars, drainVars,
                   execQueue, taskPc, curTask, mPresentationEndCallbackThread,
                   eosCount, peRuns, aborted, peVars>>

\* AAudioStream_requestPause(): the stream is asked to pause while it is
\* active.
RequestPause(rpc) == IsActive(state) /\ RequestPause_l(rpc)

\* requestFlush_l()
RequestFlush(rpc) ==
    /\ Callable
    /\ IF ServiceHandleInvalid(handleValid)
       THEN /\ lastCall' = [op |-> "requestFlush", result |-> "INVALID_STATE",
                            sent |-> [issued |-> FALSE]]
            /\ UNCHANGED <<state, mOffloadEosPending, cancelled>>
       ELSE LET view == RunSteps(RequestView, FlushSteps, "FLUSHING")
            IN /\ state' = view.state
               /\ mOffloadEosPending' = view.pending
               /\ cancelled' = cancelled \cup PendingTasks
               /\ lastCall' = [op |-> "requestFlush", result |-> rpc,
                               sent |-> view.sent]
    /\ UNCHANGED <<configVars, loopVars, openVars, copyVars, fbVars, handleValid, clockVars, mNeedCatchUp, posVars, drainVars,
                   execQueue, taskPc, curTask, mPresentationEndCallbackThread,
                   eosCount, peRuns, aborted, peVars>>

\* requestStop_l(): the pending end of stream is dropped, then the base
\* class stops the clock model, moves to STOPPING and issues the remote stop.
RequestStop_l(rpc) ==
    /\ Callable
    /\ state \in {"STARTING", "STARTED", "PAUSING", "PAUSED"}
    /\ mOffloadEosPending' = DropPending(mOffloadEosPending)
    /\ cancelled' = cancelled \cup PendingTasks
    /\ IF ~handleValid
       THEN /\ lastCall' = [op |-> "requestStop", result |-> "INVALID_STATE"]
            /\ UNCHANGED <<state, clockState>>
       ELSE /\ clockState' = "stopped"
            /\ state' = "STOPPING"
            /\ lastCall' = [op |-> "requestStop", result |-> rpc]
    /\ UNCHANGED <<configVars, openVars, copyVars, fbVars, handleValid, clockPos, mNeedCatchUp, posVars, drainVars,
                   execQueue, taskPc, curTask, mPresentationEndCallbackThread,
                   eosCount, peRuns, aborted, peVars>>

\* AAudioStream_requestStop()
RequestStop(rpc) == RequestStop_l(rpc) /\ UNCHANGED loopVars

\* ------------------------------------------------------------ flushFromFrame
\* wakeupCallbackThread_l(): the two flags after the call.
WakeupPending(dcs, pending) == IF dcs THEN FALSE ELSE pending
WakeupDraining(dcs, draining) == IF dcs THEN FALSE ELSE draining

\* The guards and values of flushFromFrame_l(), in the order of the code.
FlushRejectedHandleOnly(hv, st) == ~hv
FlushRejected(hv, st) == ~hv \/ IsDisconnected(st)

NotYetWrittenNever(framesWritten, position) == FALSE
NotYetWritten(framesWritten, position) == framesWritten < position

NotEnoughDataNever(safePosition, framesWritten) == FALSE
NotEnoughData(safePosition, framesWritten) == safePosition > framesWritten

ActualPositionRequested(safePosition, position) == position
ActualPosition(safePosition, position) == Max(safePosition, position)

AccuracyFailsNever(accuracy, actualPosition, position) == FALSE
AccuracyFails(accuracy, actualPosition, position) ==
    accuracy = "ACCURATE" /\ actualPosition # position

FlushedWriteCounterNoOffset(actualPosition, offset) == actualPosition
FlushedWriteCounter(actualPosition, offset) == actualPosition - offset

\* The value left in *position once the actual position is known.
ReportedPositionRequested(actualPosition, position) == position
ReportedPosition(actualPosition, position) == actualPosition

FlushEvents == {"none", "timestamp", "disconnect"}

\* flushFromFrame_l(accuracy, position).  tsResult is what updateTimestamp
\* returns; ev is what the processCommands() after it finds: nothing, the
\* fresh timestamp (the clock model then extrapolates est) or a disconnect.
\* The record of the call keeps the arguments, the result, what became of
\* updateTimestamp ("none": not issued, "failed", "done"), whether *position
\* was written and the value it holds on return.
FlushFromFrame(accuracy, position, tsResult, ev, est) ==
    /\ Callable
    /\ LET call == [op |-> "flushFromFrame", accuracy |-> accuracy, req |-> position]
       IN
       IF FlushRejected(handleValid, state)
       THEN /\ lastCall' = call @@ [result |-> "DISCONNECTED", refresh |-> "none",
                                    outWritten |-> FALSE, out |-> position]
            /\ UNCHANGED <<state, clockVars, posVars, mOffloadEosPending, mDraining>>
       ELSE
       LET framesWritten == FramesWritten(mLastFramesWritten, wr, mFramesOffsetFromService)
           result0 == IF NotYetWritten(framesWritten, position)
                      THEN "OUT_OF_RANGE" ELSE "OK"
       IN
       IF tsResult # "OK"
       THEN /\ mLastFramesWritten' = framesWritten
            /\ lastCall' = call @@ [result |-> tsResult, refresh |-> "failed",
                                    outWritten |-> FALSE, out |-> position]
            /\ UNCHANGED <<state, clockVars, mFramesOffsetFromService, mLastFramesRead,
                           rd, wr, mOffloadEosPending, mDraining>>
       ELSE
       LET st1 == IF ev = "disconnect" THEN "DISCONNECTED" ELSE state
           cs1 == IF ev = "timestamp" THEN TimestampClockState(clockState) ELSE clockState
           cp1 == IF ev = "timestamp" THEN TimestampClockPos(clockState, clockPos, est)
                  ELSE clockPos
           framesRead == FramesRead(mLastFramesRead,
                                    FramesReadHardware(st1, cs1, cp1, rd),
                                    mFramesOffsetFromService)
           safePosition == framesRead + mOffloadFlushFromSafeMarginInFrames
           actualPosition == ActualPosition(safePosition, position)
           result == IF AccuracyFails(accuracy, actualPosition, position)
                     THEN "OUT_OF_RANGE" ELSE result0
           seen == [refresh |-> "done"]
       IN
       /\ state' = st1
       /\ clockState' = cs1
       /\ clockPos' = cp1
       /\ mLastFramesRead' = framesRead
       /\ UNCHANGED <<mFramesOffsetFromService, rd>>
       /\ IF NotEnoughData(safePosition, framesWritten)
          THEN /\ mLastFramesWritten' = framesWritten
               /\ lastCall' = call @@ seen @@ [result |-> "OUT_OF_RANGE",
                                               outWritten |-> FALSE, out |-> position]
               /\ UNCHANGED <<wr, mOffloadEosPending, mDraining>>
          ELSE IF result # "OK"
          THEN /\ mLastFramesWritten' = framesWritten
               /\ lastCall' = call @@ seen @@
                      [result |-> result, outWritten |-> TRUE,
                       out |-> ReportedPosition(actualPosition, position)]
               /\ UNCHANGED <<wr, mOffloadEosPending, mDraining>>
          ELSE /\ mLastFramesWritten' = actualPosition
               /\ wr' = FlushedWriteCounter(actualPosition, mFramesOffsetFromService)
               /\ mOffloadEosPending' = WakeupPending(dataCallbackSet, mOffloadEosPending)
               /\ mDraining' = WakeupDraining(dataCallbackSet, mDraining)
               /\ lastCall' = call @@ seen @@
                      [result |-> "OK", outWritten |-> TRUE,
                       out |-> ReportedPosition(actualPosition, position)]
    /\ UNCHANGED <<configVars, loopVars, openVars, copyVars, fbVars, handleValid, mNeedCatchUp, mWakeUpHandle, svcTimers,
                   writerPc, execVars, aborted, peVars>>

\* --------------------------------------------------------------------- write
\* write(): the drain is armed when the buffer is this full.
ShouldDrainOneSecond(fullFrames) ==
    /\ fullFrames > DeviceBufferSize - mOffloadSafeMarginInFrames
    /\ fullFrames > DeviceSampleRate * 1
ShouldDrain(fullFrames) ==
    /\ fullFrames > DeviceBufferSize - mOffloadSafeMarginInFrames
    /\ fullFrames > DeviceSampleRate * 1 + mOffloadSafeMarginInFrames

\* processCommands() finds a disconnect event or nothing: the state after it.
AfterCommands(st, found) == IF found THEN "DISCONNECTED" ELSE st

\* drainStream_l() and activateStream_l(): the result reported when the
\* remote call failed.
RemoteFailure(st, rpc) == IF IsDisconnected(st) THEN "DISCONNECTED" ELSE rpc

DisconnectPoints == {"none", "early", "late"}

\* write(): mOffloadEosPending after the call.
WrittenPendingCleared(pending) == FALSE
WrittenPending(pending) == pending

\* write(): what the thread of the data callback wrote is not what it was
\* given (processData() failed or took fewer frames).
CallbackWriteFailsOnError(dcs, failed, wrote, numFrames) == dcs /\ failed
CallbackWriteFails(dcs, failed, wrote, numFrames) ==
    dcs /\ (failed \/ wrote # numFrames)

\* write(): the pending drain is given up before the data is processed.
NeedsActivateNever(mayDrain, dcs, draining) == FALSE
NeedsActivate(mayDrain, dcs, draining) == mayDrain /\ ~dcs /\ draining

\* write(): the frames whose consumption the drain waits for.
DrainFramesAll(fullFrames) == fullFrames
DrainFrames(fullFrames) == fullFrames - mOffloadSafeMarginInFrames

\* mAudioEndpoint->getBufferSizeInFrames(): the endpoint's buffer size is
\* set to the maximum that can be written, the size EmptyFramesAvailable
\* counts with.
EndpointBufferSize == DeviceBufferSize

\* mClockModel.convertPositionToTime(position), counted in milliseconds from
\* now: cp is the position the clock model gives for now and phase the time
\* since the device reached it.
ConvertPositionToTime(position, cp, phase) ==
    ConvertDeltaPositionToTime(position - cp) - phase

\* The times since the device reached the position of now: less than the
\* time of one frame.
ClockPhases == {0, 1, (AAUDIO_MILLIS_PER_SECOND \div DeviceSampleRate) - 1}

\* processDataNow(): how *wakeTimePtr is set by a pass that got as far as
\* writing: not at all ("none"), to now + 1 ms ("default"), to now ("now") or
\* from a position of the read counter ("position").
WakeKind(st, fullFrames, framesWritten) ==
    IF fullFrames < DeviceBufferSize THEN "none"
    ELSE IF st \in {"OPEN", "STARTING"}
         THEN IF framesWritten # 0 THEN "now" ELSE "default"
    ELSE IF st = "STARTED" THEN "position"
    ELSE "default"

\* processDataNow(): targetReadPosition, the position of the read counter at
\* which the thread wakes up.
WakePositionAppBuffer(w) == w - DeviceBufferSize
WakePosition(w) ==
    w - Min(DeviceBufferSize, EndpointBufferSize - DeviceFramesPerBurst)

\* write(buffer, numFrames, timeout 0): one pass of processDataNow().
\* disc tells which processCommands() of the call finds a disconnect event:
\* the one that opens processDataNow() ("early") or a later one ("late").
\* actRes and drainRes are the results of the remote activate and drain
\* calls, h the wake-up handle the service returns.  Positions of the run
\* stay within limit.  The record of the call keeps numFrames, the number of
\* activateStream calls and what became of it ("none", "done", "failed"),
\* the result ("OK" for a frame count, or the error),
\* frames (the count returned, 0 with an error), the number of error
\* callbacks, the frames moved into the endpoint, what became of the drain
\* ("none": not requested, "failed", "armed") and drainNanos, its duration,
\* wakeKind, how processDataNow() set the wake time ("soon": 2 ms from now,
\* while the clock model has no timestamp) and wakePosition, the position it
\* computed the wake time from (0 when it used none).
WriteCall(limit, numFrames, disc, actRes, drainRes, h) ==
    /\ Callable
    /\ handleValid
    /\ writerPc = "idle"
    /\ LET needActivate == NeedsActivate(MayNeedToDrain(state, clockState),
                                         dataCallbackSet, mDraining)
           call == [op |-> "write", numFrames |-> numFrames,
                    activates |-> IF needActivate THEN 1 ELSE 0,
                    activate |-> IF ~needActivate THEN "none"
                                 ELSE IF actRes = "OK" THEN "done" ELSE "failed"]
           noDrain == [drain |-> "none", drainNanos |-> 0]
       IN
       IF needActivate /\ actRes # "OK"
       THEN \* activateStream_l() failed
            /\ state' = AfterCommands(state, disc # "none")
            /\ lastCall' = call @@ noDrain @@
                  [result |-> RemoteFailure(state', actRes), frames |-> 0,
                   errorCallbacks |-> 1, wrote |-> 0,
                   wakeKind |-> "none", wakePosition |-> 0]
            /\ UNCHANGED <<mNeedCatchUp, mFramesOffsetFromService, rd, wr,
                           mDraining, mWakeUpHandle, svcTimers, writerPc>>
       ELSE
       LET handleA   == IF needActivate THEN INVALID_HANDLE ELSE mWakeUpHandle
           timersA   == IF needActivate THEN svcTimers \ {mWakeUpHandle} ELSE svcTimers
           drainingA == IF needActivate THEN FALSE ELSE mDraining
           \* processDataNow()
           stB     == AfterCommands(state, disc = "early")
           failedB == disc = "early"
           waitTs  == ~failedB /\ clockState = "starting"
           moved   == ~failedB /\ ~waitTs
           rd1     == IF moved THEN clockPos ELSE rd
           catchUp == moved /\ mNeedCatchUp
           off1    == IF catchUp
                      THEN AdvancedOffset(mFramesOffsetFromService, rd1, wr,
                                          DeviceFramesPerBurst)
                      ELSE mFramesOffsetFromService
           wr1     == IF catchUp THEN AdvancedWriteCounter(rd1, DeviceFramesPerBurst)
                      ELSE wr
           wrote   == IF moved THEN Min(numFrames, EmptyFramesAvailable(rd1, wr1)) ELSE 0
           wr2     == wr1 + wrote
           fullFrames == FullFramesAvailable(rd1, wr2)
           wakeKind == IF failedB THEN "none"
                       ELSE IF waitTs THEN "soon"
                       ELSE WakeKind(stB, fullFrames, wrote)
           done    == call @@ [wrote |-> wrote, wakeKind |-> wakeKind,
                               wakePosition |-> IF wakeKind = "position"
                                                THEN WakePosition(wr2) ELSE 0]
       IN
       /\ wr2 <= limit
       /\ wr2 + off1 <= limit
       /\ mNeedCatchUp' = (mNeedCatchUp /\ ~catchUp)
       /\ mFramesOffsetFromService' = off1
       /\ rd' = rd1
       /\ wr' = wr2
       /\ IF CallbackWriteFails(dataCallbackSet, failedB, wrote, numFrames)
          THEN \* the callback thread must be able to write everything
               /\ state' = AfterCommands(stB, ~failedB /\ disc = "late")
               /\ lastCall' = done @@ noDrain @@
                     [result |-> IF failedB \/ IsDisconnected(state')
                                 THEN "DISCONNECTED" ELSE "TIMEOUT",
                      frames |-> 0, errorCallbacks |-> 1]
               /\ mDraining' = drainingA
               /\ mWakeUpHandle' = handleA
               /\ svcTimers' = timersA
               /\ UNCHANGED writerPc
          ELSE IF ~failedB /\ MayNeedToDrain(stB, clockState)
                  /\ ShouldDrain(fullFrames)
          THEN IF drainRes = "OK"
               THEN /\ state' = stB
                    /\ mWakeUpHandle' = h
                    /\ svcTimers' = timersA \cup {h}
                    /\ mDraining' = TRUE
                    /\ writerPc' = IF dataCallbackSet THEN "drainWait" ELSE "idle"
                    /\ lastCall' = done @@
                          [result |-> "OK", frames |-> wrote,
                           errorCallbacks |-> 0, drain |-> "armed",
                           drainNanos |-> ConvertDeltaPositionToTime(
                                              DrainFrames(fullFrames))]
               ELSE /\ state' = AfterCommands(stB, disc = "late")
                    /\ lastCall' = done @@
                          [result |-> RemoteFailure(state', drainRes), frames |-> 0,
                           errorCallbacks |-> 1, drain |-> "failed", drainNanos |-> 0]
                    /\ mDraining' = drainingA
                    /\ mWakeUpHandle' = handleA
                    /\ svcTimers' = timersA
                    /\ UNCHANGED writerPc
          ELSE /\ state' = stB
               /\ lastCall' = done @@ noDrain @@
                     [result |-> IF failedB THEN "DISCONNECTED" ELSE "OK",
                      frames |-> IF failedB THEN 0 ELSE wrote,
                      errorCallbacks |-> 0]
               /\ mDraining' = drainingA
               /\ mWakeUpHandle' = handleA
               /\ svcTimers' = timersA
               /\ UNCHANGED writerPc
    /\ mOffloadEosPending' = WrittenPending(mOffloadEosPending)
    /\ UNCHANGED <<configVars, openVars, copyVars, fbVars, handleValid, clockVars, mLastFramesRead,
                   mLastFramesWritten, execVars, aborted, peVars>>

\* write() called by the application, or by a callback loop that is not
\* observed.
WriteUpTo(limit, numFrames, disc, actRes, drainRes, h) ==
    /\ WriteCall(limit, numFrames, disc, actRes, drainRes, h)
    /\ UNCHANGED loopVars

Write(numFrames, disc, actRes, drainRes, h) ==
    WriteUpTo(MaxPos, numFrames, disc, actRes, drainRes, h)

\* The callback thread leaves the drain wait of write(): the flag was cleared
\* and the condition variable notified ...
DrainWaitNotified ==
    /\ ~aborted
    /\ writerPc = "drainWait"
    /\ ~mDraining
    /\ writerPc' = "idle"
    /\ lastCall' = NoCall
    /\ UNCHANGED <<configVars, loopVars, openVars, copyVars, fbVars, state, handleValid, clockVars, mNeedCatchUp, posVars,
                   mOffloadEosPending, mDraining, mWakeUpHandle, svcTimers, execVars,
                   aborted, peVars>>

\* ... or the drain time has elapsed.
DrainWaitTimeout ==
    /\ ~aborted
    /\ writerPc = "drainWait"
    /\ mDraining
    /\ writerPc' = "idle"
    /\ lastCall' = NoCall
    /\ UNCHANGED <<configVars, loopVars, openVars, copyVars, fbVars, state, handleValid, clockVars, mNeedCatchUp, posVars,
                   mOffloadEosPending, mDraining, mWakeUpHandle, svcTimers, execVars,
                   aborted, peVars>>

\* onWakeUp_l(handle): a timer of the service's queue fires.
OnWakeUp(handle) ==
    /\ Callable
    /\ mStreamMutex = "free"
    /\ handle \in svcTimers
    /\ svcTimers' = svcTimers \ {handle}
    /\ mWakeUpHandle' = INVALID_HANDLE
    /\ mOffloadEosPending' = WakeupPending(dataCallbackSet, mOffloadEosPending)
    /\ mDraining' = WakeupDraining(dataCallbackSet, mDraining)
    /\ lastCall' = NoCall
    /\ UNCHANGED <<configVars, loopVars, openVars, copyVars, fbVars, state, handleValid, clockVars, mNeedCatchUp, posVars,
                   writerPc, execVars, aborted, peVars>>

\* ------------------------------------------------- offload end of stream
\* What dereferencing the empty optional does: the process dies, or the call
\* goes on and no runnable is ever run.
EmptyOptionalOutcomes == {"abort", "lost"}

\* setOffloadEndOfStream(): the modes without offload end of stream.
EosUnsupportedNever(pm, sm) == FALSE
EosUnsupported(pm, sm) == pm # "POWER_SAVING_OFFLOADED" \/ sm # "EXCLUSIVE"

\* setOffloadEndOfStream(): the states in which it cannot be set.
EosInvalidStateNever(st, cs) == FALSE
EosInvalidState(st, cs) == st # "STARTED" \/ cs = "starting"

\* setOffloadEndOfStream(): the frames whose consumption the runnable waits
\* for, given the frames in the endpoint.
StreamEndFramesAll(fullFrames) == fullFrames
StreamEndFrames(fullFrames) == Max(0, fullFrames - DeviceFramesPerBurst)

\* setOffloadEndOfStream().  The record of an accepted call of a stream
\* without data callback keeps streamEndNanos, the timeout of the wait.
SetOffloadEndOfStream(ub) ==
    /\ Callable
    /\ handleValid
    /\ eosCount < MaxEos
    /\ EosUnsupported(performanceMode, sharingMode) \/ mStreamMutex = "free"
    /\ IF EosUnsupported(performanceMode, sharingMode)
       THEN /\ lastCall' = [op |-> "setOffloadEndOfStream", result |-> "UNIMPLEMENTED"]
            /\ UNCHANGED <<mOffloadEosPending, execQueue, eosCount, aborted>>
       ELSE IF EosInvalidState(state, clockState)
       THEN /\ lastCall' = [op |-> "setOffloadEndOfStream", result |-> "INVALID_STATE"]
            /\ UNCHANGED <<mOffloadEosPending, execQueue, eosCount, aborted>>
       ELSE /\ mOffloadEosPending' = TRUE
            /\ lastCall' =
                  IF dataCallbackSet
                  THEN [op |-> "setOffloadEndOfStream", result |-> "OK"]
                  ELSE [op |-> "setOffloadEndOfStream", result |-> "OK",
                        streamEndNanos |-> ConvertDeltaPositionToTime(
                            StreamEndFrames(FullFramesAvailable(rd, wr)))]
            /\ IF dataCallbackSet
               THEN UNCHANGED <<execQueue, eosCount, aborted>>
               ELSE IF mStreamEndExecutor
               THEN /\ execQueue' = Append(execQueue, eosCount + 1)
                    /\ eosCount' = eosCount + 1
                    /\ UNCHANGED aborted
               ELSE /\ aborted' = (ub = "abort")
                    /\ eosCount' = eosCount + 1
                    /\ UNCHANGED execQueue
    /\ UNCHANGED <<configVars, loopVars, openVars, copyVars, fbVars, state, handleValid, clockVars, mNeedCatchUp, posVars,
                   drainVars, taskPc, curTask, mPresentationEndCallbackThread,
                   cancelled, peRuns, peVars>>

\* The executor's worker takes the next runnable and enters the wait.
TaskStart ==
    /\ ~aborted
    /\ taskPc = "idle"
    /\ execQueue # <<>>
    /\ curTask' = Head(execQueue)
    /\ execQueue' = Tail(execQueue)
    /\ taskPc' = "waiting"
    /\ lastCall' = NoCall
    /\ UNCHANGED <<configVars, loopVars, openVars, copyVars, fbVars, state, handleValid, clockVars, mNeedCatchUp, posVars,
                   mOffloadEosPending, drainVars, mPresentationEndCallbackThread,
                   eosCount, cancelled, peRuns, aborted, peVars>>

\* The runnable after its wait: it goes on to the callback only if the end
\* of stream is still pending.
StillPendingNever(pending) == FALSE
StillPending(pending) == pending

\* The wait ends with the flag cleared: the runnable returns.
TaskCancelled ==
    /\ ~aborted
    /\ taskPc = "waiting"
    /\ ~StillPending(mOffloadEosPending)
    /\ taskPc' = "idle"
    /\ lastCall' = NoCall
    /\ UNCHANGED <<configVars, loopVars, openVars, copyVars, fbVars, state, handleValid, clockVars, mNeedCatchUp, posVars,
                   mOffloadEosPending, drainVars, execQueue, curTask,
                   mPresentationEndCallbackThread, eosCount, cancelled, peRuns,
                   aborted, peVars>>

\* The wait times out with the flag set: the runnable clears it and leaves
\* the lock.
TaskExpired ==
    /\ ~aborted
    /\ taskPc = "waiting"
    /\ StillPending(mOffloadEosPending)
    /\ mOffloadEosPending' = FALSE
    /\ taskPc' = "call"
    /\ lastCall' = NoCall
    /\ UNCHANGED <<configVars, loopVars, openVars, copyVars, fbVars, state, handleValid, clockVars, mNeedCatchUp, posVars,
                   drainVars, execQueue, curTask, mPresentationEndCallbackThread,
                   eosCount, cancelled, peRuns, aborted, peVars>>

\* maybeCallPresentationEndCallback(): compare_exchange_strong on the owner.
CasSucceedsAlways(owner) == TRUE
CasSucceeds(owner) == owner = CALLBACK_THREAD_NONE

\* The worker runs maybeCallPresentationEndCallback() up to the call of the
\* application's callback ...
TaskInvoke ==
    /\ ~aborted
    /\ taskPc = "call"
    /\ IF procSet /\ CasSucceeds(mPresentationEndCallbackThread)
       THEN /\ mPresentationEndCallbackThread' = ExecutorTid
            /\ peRuns' = peRuns + 1
            /\ taskPc' = "callback"
       ELSE /\ taskPc' = "idle"
            /\ UNCHANGED <<mPresentationEndCallbackThread, peRuns>>
    /\ lastCall' = NoCall
    /\ UNCHANGED <<configVars, loopVars, openVars, copyVars, fbVars, state, handleValid, clockVars, mNeedCatchUp, posVars,
                   mOffloadEosPending, drainVars, execQueue, curTask, eosCount,
                   cancelled, aborted, peVars>>

\* ... and the callback returns.
TaskCallbackReturn ==
    /\ ~aborted
    /\ taskPc = "callback"
    /\ mPresentationEndCallbackThread' = CALLBACK_THREAD_NONE
    /\ taskPc' = "idle"
    /\ lastCall' = NoCall
    /\ UNCHANGED <<configVars, loopVars, openVars, copyVars, fbVars, state, handleValid, clockVars, mNeedCatchUp, posVars,
                   mOffloadEosPending, drainVars, execQueue, curTask, eosCount,
                   cancelled, peRuns, aborted, peVars>>

\* ------------------------------ threads in maybeCallPresentationEndCallback
\* gettid() of caller c.
Tid(c) == ExecutorTid + c

\* Caller c enters maybeCallPresentationEndCallback(): without a callback
\* there is nothing to do.
PeEnter(c) ==
    /\ pePc[c] = "ready"
    /\ pePc' = [pePc EXCEPT ![c] = IF procSet THEN "cas" ELSE "done"]
    /\ lastCall' = NoCall
    /\ UNCHANGED <<configVars, loopVars, openVars, copyVars, fbVars, state, handleValid, clockVars, mNeedCatchUp, posVars,
                   mOffloadEosPending, drainVars, execVars, aborted>>

\* The compare-exchange: the winner calls the application, the loser logs
\* "already running" and returns.
PeCas(c) ==
    /\ pePc[c] = "cas"
    /\ IF CasSucceeds(mPresentationEndCallbackThread)
       THEN /\ mPresentationEndCallbackThread' = Tid(c)
            /\ peRuns' = peRuns + 1
            /\ pePc' = [pePc EXCEPT ![c] = "running"]
       ELSE /\ pePc' = [pePc EXCEPT ![c] = "dropped"]
            /\ UNCHANGED <<mPresentationEndCallbackThread, peRuns>>
    /\ lastCall' = NoCall
    /\ UNCHANGED <<configVars, loopVars, openVars, copyVars, fbVars, state, handleValid, clockVars, mNeedCatchUp, posVars,
                   mOffloadEosPending, drainVars, execQueue, taskPc, curTask, eosCount,
                   cancelled, aborted>>

\* The application's callback returns to caller c ...
PeCallbackReturn(c) ==
    /\ pePc[c] = "running"
    /\ pePc' = [pePc EXCEPT ![c] = "storing"]
    /\ lastCall' = NoCall
    /\ UNCHANGED <<configVars, loopVars, openVars, copyVars, fbVars, state, handleValid, clockVars, mNeedCatchUp, posVars,
                   mOffloadEosPending, drainVars, execVars, aborted>>

\* ... which stores CALLBACK_THREAD_NONE.
PeStore(c) ==
    /\ pePc[c] = "storing"
    /\ mPresentationEndCallbackThread' = CALLBACK_THREAD_NONE
    /\ pePc' = [pePc EXCEPT ![c] = "done"]
    /\ lastCall' = NoCall
    /\ UNCHANGED <<configVars, loopVars, openVars, copyVars, fbVars, state, handleValid, clockVars, mNeedCatchUp, posVars,
                   mOffloadEosPending, drainVars, execQueue, taskPc, curTask, eosCount,
                   cancelled, peRuns, aborted>>

\* ------------------------------------------------------------------- Spec
\* What updateTimestamp returns and what the processCommands() after it
\* finds.
FlushInputs ==
    {<<"NO_SERVICE", "none", 0>>, <<"OK", "none", 0>>, <<"OK", "disconnect", 0>>}
        \cup {<<"OK", "timestamp", est>> : est \in 0..MaxPos}

\* Spec: the positions of a stream, as its caller, the service and the clock
\* drive them.
Next ==
    \/ GetFramesRead
    \/ GetFramesWritten
    \/ ClockAdvance
    \/ \E est \in 0..MaxPos : OnTimestamp(est)
    \/ RequestStart
    \/ OnEventFromServer
    \/ OnDisconnect
    \/ Release
    \/ RequestPause("OK")
    \/ RequestFlush("OK")
    \/ \E accuracy \in Accuracies, position \in 0..(MaxPos + 1), in \in FlushInputs :
          FlushFromFrame(accuracy, position, in[1], in[2], in[3])
    \/ \E numFrames \in 1..MaxWriteFrames : Write(numFrames, "none", "OK", "OK", 1)
    \/ SetOffloadEndOfStream("abort")
    \/ CallReturns

Spec == Init /\ [][Next]_vars

\* SpecEos: the offload end of stream of a stream written by its caller
\* (no data callback): the lifecycle calls, setOffloadEndOfStream() and the
\* worker of mStreamEndExecutor.
InitEos == (\E ps \in BOOLEAN : Opened(FALSE, ps)) /\ NoCallers

NextEos ==
    \/ RequestStart
    \/ OnEventFromServer
    \/ \E est \in 0..MaxPos : OnTimestamp(est)
    \/ \E rpc \in RpcResults : RequestPause(rpc)
    \/ \E rpc \in RpcResults : RequestFlush(rpc)
    \/ \E rpc \in RpcResults : RequestStop(rpc)
    \/ \E ub \in EmptyOptionalOutcomes : SetOffloadEndOfStream(ub)
    \/ CallReturns
    \/ TaskStart
    \/ TaskCancelled
    \/ TaskExpired
    \/ TaskInvoke
    \/ TaskCallbackReturn

SpecEos == InitEos /\ [][NextEos]_vars

\* SpecPE: some of the threads 1..NumCallers invoke
\* maybeCallPresentationEndCallback(), each once, in any interleaving.
InitPE ==
    /\ \E dcs \in BOOLEAN, ps \in BOOLEAN : Opened(dcs, ps)
    /\ pePc \in [1..NumCallers -> {"off", "ready"}]

NextPE ==
    \E c \in 1..NumCallers :
        \/ PeEnter(c)
        \/ PeCas(c)
        \/ PeCallbackReturn(c)
        \/ PeStore(c)

SpecPE == InitPE /\ [][NextPE]_vars

\* SpecDrain: the offload drain of a started stream, with or without a data
\* callback: write() with every outcome of its remote calls, the wake-up
\* timers of the service, the thread blocked in the drain wait and the
\* lifecycle calls.
InitDrain == (\E dcs \in BOOLEAN : Opened(dcs, TRUE)) /\ NoCallers

NextDrain ==
    \/ RequestStart
    \/ OnEventFromServer
    \/ \E est \in 0..MaxDrainClock : OnTimestamp(est)
    \/ \E numFrames \in 1..MaxWriteFrames, disc \in DisconnectPoints,
          actRes \in RpcResults, drainRes \in RpcResults, h \in 1..MaxHandle :
          WriteUpTo(MaxDrainPos, numFrames, disc, actRes, drainRes, h)
    \/ DrainWaitNotified
    \/ DrainWaitTimeout
    \/ \E handle \in 1..MaxHandle : OnWakeUp(handle)
    \/ \E rpc \in RpcResults : RequestPause(rpc)
    \/ \E rpc \in RpcResults : RequestFlush(rpc)
    \/ \E rpc \in RpcResults : RequestStop(rpc)
    \/ CallReturns

SpecDrain == InitDrain /\ [][NextDrain]_vars

\* ------------------------------------------------------------- properties
\* What getFramesWritten() returns when called in the current state.
FramesWrittenNow ==
    IF HasEndpoint(handleValid)
    THEN FramesWritten(mLastFramesWritten, wr, mFramesOffsetFromService)
    ELSE mLastFramesWritten

\* The service handle is invalid or the stream is disconnected.
NotConnected == ~handleValid \/ state = "DISCONNECTED"

\* The last step was a flushFromFrame call.
Flushed == lastCall.op = "flushFromFrame"

\* The safe position the last flushFromFrame call evaluated: getFramesRead()
\* as it left it plus the margin.
SafePositionSeen == mLastFramesRead + mOffloadFlushFromSafeMarginInFrames

\* C1: every value getFramesRead() returns is greater than or equal to every
\* value it returned earlier.  mLastFramesRead is the largest value returned
\* so far: no step lowers it, and a call returns it.
C1_FramesReadNeverGoesBack ==
    [][/\ mLastFramesRead' >= mLastFramesRead
       /\ lastCall'.op = "getFramesRead" =>
              /\ lastCall'.ret = mLastFramesRead'
              /\ lastCall'.ret >= mLastFramesRead]_vars

\* C1, its case: getFramesRead() has returned while the hardware position
\* plus the frame offset lies behind an earlier return value.
C1_RetrogradeHidden ==
    /\ lastCall.op = "getFramesRead"
    /\ HasEndpoint(handleValid)
    /\ FramesReadHardware(state, clockState, clockPos, rd) + mFramesOffsetFromService
           < lastCall.ret

\* C2 as stated: every value getFramesWritten() returns is greater than or
\* equal to every value it returned earlier, i.e. no step lowers
\* mLastFramesWritten, the value the latest evaluation returned.
C2_FramesWrittenNeverGoesBack ==
    [][mLastFramesWritten' >= mLastFramesWritten]_vars

\* C2 as amended: only a successful flushFromFrame lowers the value of
\* getFramesWritten(); it sets it to the position it reports.  Every other
\* step (write, catch-up, onFlushFromServer, a failed flushFromFrame, ...)
\* leaves it or raises it, and a call returns it.
C2_OnlyRewindGoesBack ==
    [][/\ IF lastCall'.op = "flushFromFrame" /\ lastCall'.result = "OK"
          THEN mLastFramesWritten' = lastCall'.out
          ELSE mLastFramesWritten' >= mLastFramesWritten
       /\ lastCall'.op = "getFramesWritten" => lastCall'.ret = mLastFramesWritten']_vars

\* C2, its case: getFramesWritten() has returned the frames written after a
\* catch-up or a flush moved the frame offset.
C2_WrittenAcrossOffset ==
    /\ lastCall.op = "getFramesWritten"
    /\ lastCall.ret > 0
    /\ mFramesOffsetFromService # 0
    /\ wr + mFramesOffsetFromService = lastCall.ret

\* C3: a flushFromFrame that returns AAUDIO_OK reports a position that is at
\* least getFramesRead(), as evaluated in the call after the timestamp
\* refresh, plus mOffloadFlushFromSafeMarginInFrames.
C3_FlushIsSafe ==
    (Flushed /\ lastCall.result = "OK") => lastCall.out >= SafePositionSeen

\* C3, its case: a successful flush whose requested position lay before the
\* safe position.
C3_RaisedToSafe ==
    /\ Flushed
    /\ lastCall.result = "OK"
    /\ lastCall.req < SafePositionSeen

\* C4 as stated: flushFromFrame with a requested position beyond
\* getFramesWritten() returns OUT_OF_RANGE, whatever else holds, and leaves
\* the write counter, the frames written, the frame offset, mDraining and
\* mOffloadEosPending as they were.
C4_BeyondWrittenIsOutOfRange ==
    [][(lastCall'.op = "flushFromFrame" /\ lastCall'.req > FramesWrittenNow) =>
           /\ lastCall'.result = "OUT_OF_RANGE"
           /\ FramesWrittenNow' = FramesWrittenNow
           /\ UNCHANGED <<wr, mFramesOffsetFromService, mDraining,
                          mOffloadEosPending>>]_vars

\* C4 as amended: flushFromFrame with a requested position beyond
\* getFramesWritten() never succeeds and leaves the write counter, the frames
\* written, the frame offset, mDraining and mOffloadEosPending as they were;
\* it returns DISCONNECTED when the handle is invalid or the stream
\* disconnected, the error of updateTimestamp when that call fails, and
\* OUT_OF_RANGE otherwise.
C4_BeyondWrittenIsRejected ==
    [][(lastCall'.op = "flushFromFrame" /\ lastCall'.req > FramesWrittenNow) =>
           /\ lastCall'.result =
                  CASE NotConnected -> "DISCONNECTED"
                    [] lastCall'.refresh = "failed" -> "NO_SERVICE"
                    [] OTHER -> "OUT_OF_RANGE"
           /\ NotConnected <=> lastCall'.refresh = "none"
           /\ FramesWrittenNow' = FramesWrittenNow
           /\ UNCHANGED <<wr, mFramesOffsetFromService, mDraining,
                          mOffloadEosPending>>]_vars

\* C4, its case: a flush to a position not yet written, on a connected stream
\* with enough data and no accuracy demanded, has been rejected while an end
\* of stream was pending.
C4_NotYetWrittenRejected ==
    /\ Flushed
    /\ lastCall.result = "OUT_OF_RANGE"
    /\ lastCall.accuracy = "UNDEFINED"
    /\ lastCall.req > mLastFramesWritten
    /\ SafePositionSeen <= mLastFramesWritten
    /\ mOffloadEosPending

\* C5: after a flushFromFrame that returned AAUDIO_OK the endpoint's write
\* counter is the reported position minus mFramesOffsetFromService,
\* getFramesWritten() returns the reported position, and that position is
\* max(framesRead + margin, requested position).
C5_FlushSetsPosition ==
    (Flushed /\ lastCall.result = "OK") =>
        /\ lastCall.outWritten
        /\ wr = lastCall.out - mFramesOffsetFromService
        /\ FramesWrittenNow = lastCall.out
        /\ lastCall.out = Max(SafePositionSeen, lastCall.req)

\* C5, its case: a successful flush on a stream whose frame offset is not
\* zero, rewinding to a position behind the frames written.
C5_RewoundWithOffset ==
    /\ Flushed
    /\ lastCall.result = "OK"
    /\ mFramesOffsetFromService # 0
    /\ lastCall.out > 0

\* C6: flushFromFrame with ACCURATE accuracy on a connected stream (valid
\* handle, not disconnected, timestamp refreshed) with enough data
\* (framesRead + margin <= framesWritten) whose max(framesRead + margin,
\* requested) is not the requested position returns OUT_OF_RANGE, stores that
\* maximum in the output parameter and changes neither the write counter nor
\* getFramesWritten().
C6_AccurateMismatchRejected ==
    [][(/\ lastCall'.op = "flushFromFrame"
        /\ lastCall'.accuracy = "ACCURATE"
        /\ lastCall'.refresh = "done"
        /\ SafePositionSeen' <= FramesWrittenNow
        /\ Max(SafePositionSeen', lastCall'.req) # lastCall'.req) =>
           /\ lastCall'.result = "OUT_OF_RANGE"
           /\ lastCall'.outWritten
           /\ lastCall'.out = Max(SafePositionSeen', lastCall'.req)
           /\ wr' = wr
           /\ FramesWrittenNow' = FramesWrittenNow]_vars

\* C6, its case: an ACCURATE flush to a written position that lies before the
\* safe position has been rejected with the safe position reported.
C6_AccurateBeforeSafe ==
    /\ Flushed
    /\ lastCall.accuracy = "ACCURATE"
    /\ lastCall.result = "OUT_OF_RANGE"
    /\ lastCall.req <= mLastFramesWritten
    /\ lastCall.req < lastCall.out

\* C7 as stated: every flushFromFrame that returns OUT_OF_RANGE has written
\* max(framesRead + margin, requested position) into the output parameter.
C7_OutOfRangeAlwaysReports ==
    (Flushed /\ lastCall.result = "OUT_OF_RANGE") =>
        /\ lastCall.outWritten
        /\ lastCall.out = Max(SafePositionSeen, lastCall.req)

\* C7 as amended: a flushFromFrame that returns OUT_OF_RANGE has written
\* max(framesRead + margin, requested position) into the output parameter
\* when there was enough data (framesRead + margin <= framesWritten); when
\* there was not, it returns with the parameter untouched.
C7_OutOfRangeReportsIfEnoughData ==
    (Flushed /\ lastCall.result = "OUT_OF_RANGE") =>
        IF SafePositionSeen <= mLastFramesWritten
        THEN /\ lastCall.outWritten
             /\ lastCall.out = Max(SafePositionSeen, lastCall.req)
        ELSE /\ ~lastCall.outWritten
             /\ lastCall.out = lastCall.req

\* C7, its case: an OUT_OF_RANGE flush has replaced the requested position by
\* the safe position.
C7_ReportedSafePosition ==
    /\ Flushed
    /\ lastCall.result = "OUT_OF_RANGE"
    /\ lastCall.outWritten
    /\ lastCall.out = SafePositionSeen
    /\ lastCall.out # lastCall.req

\* C8: flushFromFrame on a stream whose handle is invalid or that is
\* disconnected returns DISCONNECTED for every position and accuracy, without
\* issuing updateTimestamp, without writing the output parameter and without
\* changing a counter or a flag.
C8_DisconnectedFirst ==
    [][(lastCall'.op = "flushFromFrame" /\ NotConnected) =>
           /\ lastCall'.result = "DISCONNECTED"
           /\ lastCall'.refresh = "none"
           /\ ~lastCall'.outWritten
           /\ lastCall'.out = lastCall'.req
           /\ UNCHANGED <<configVars, loopVars, openVars, copyVars, fbVars, state, handleValid, clockVars, mNeedCatchUp,
                          posVars, mOffloadEosPending, drainVars, execVars,
                          aborted>>]_vars

\* C8, its case: a flush to a position not yet written, on a disconnected
\* stream whose handle is valid, has returned DISCONNECTED.
C8_DisconnectedBeatsRange ==
    /\ Flushed
    /\ lastCall.result = "DISCONNECTED"
    /\ lastCall.refresh = "none"
    /\ handleValid
    /\ IsDisconnected(state)
    /\ lastCall.req > FramesWrittenNow

\* The threads that invoke maybeCallPresentationEndCallback(), those inside
\* the application's callback (up to the store that ends it), and whether
\* every invocation has returned.
PeCallers == {c \in 1..NumCallers : pePc[c] # "off"}
PeInside == {c \in 1..NumCallers : pePc[c] \in {"running", "storing"}}
PeAllReturned == \A c \in 1..NumCallers : pePc[c] \in {"off", "done", "dropped"}

C10_CancelledTaskNeverFires ==
    ~(taskPc = "callback" /\ curTask \in cancelled)

\* ------------------------------------------------------------------ drain
\* The calls that stop the consumption of data.
StopRequests == {"requestPause", "requestStop", "requestFlush"}

\* The last step was a pause, a stop or a flush that the service accepted.
StopRequestReturned ==
    lastCall.op \in StopRequests /\ lastCall.result = "OK"

\* C11: when requestPause, requestStop or requestFlush returns, no drain is
\* pending any more: mDraining is false, so that a thread blocked in the
\* drain wait of write() leaves it by notification.
C11_RequestClearsDraining ==
    StopRequestReturned => ~mDraining

\* ------------------------------------------------- end of stream, liveness
\* SpecEosFair: SpecEos with a worker that keeps running.  The executor's
\* thread takes a queued runnable, its wait_for returns when the flag is
\* cleared or at the latest when the timeout has elapsed, and the
\* application's callback returns.
FairEos ==
    /\ WF_vars(TaskStart)
    /\ WF_vars(TaskCancelled)
    /\ WF_vars(TaskExpired)
    /\ WF_vars(TaskInvoke)
    /\ WF_vars(TaskCallbackReturn)

SpecEosFair == InitEos /\ [][NextEos]_vars /\ FairEos

\* The worker has nothing left to do.
ExecutorQuiet == taskPc = "idle" /\ execQueue = <<>>

\* setOffloadEndOfStream() has just returned AAUDIO_OK, as call number k,
\* after n presentation-end callbacks.
EosAccepted(k, n) ==
    /\ procSet
    /\ lastCall.op = "setOffloadEndOfStream"
    /\ lastCall.result = "OK"
    /\ eosCount = k
    /\ peRuns = n

\* C12 as stated: once the worker has run every runnable, the stream has
\* called the presentation-end callback once for each successful
\* setOffloadEndOfStream() that was not cancelled.
C12_OneCallbackPerCall ==
    (procSet /\ ExecutorQuiet) => peRuns = eosCount - Cardinality(cancelled)

\* C12 amended: every successful setOffloadEndOfStream() that is not
\* cancelled is eventually followed by a presentation-end callback, and the
\* callbacks never outnumber the successful calls.
C12_AcceptedCallIsAnswered ==
    /\ [](peRuns <= eosCount)
    /\ \A k \in 1..MaxEos, n \in 0..MaxEos :
          EosAccepted(k, n) ~> (k \in cancelled \/ peRuns > n)

\* Two calls were accepted while the first was pending, none was cancelled
\* and the worker has finished: they shared one callback.
C12_TwoCallsOneCallback ==
    /\ procSet
    /\ ExecutorQuiet
    /\ eosCount = 2
    /\ cancelled = {}
    /\ peRuns = 1

\* --------------------------------------- end of stream of a written stream
\* SpecEosWrite: a stream of any performance and sharing mode, with or
\* without data callback, that is started, written, paused, disconnected
\* and told the end of the stream, with the worker of mStreamEndExecutor.
InitEosWrite ==
    /\ \E pm \in PerformanceModes, sm \in SharingModes, dcs \in BOOLEAN :
          OpenedAs(pm, sm, dcs, TRUE)
    /\ NoCallers

NextEosWrite ==
    \/ RequestStart
    \/ OnEventFromServer
    \/ \E est \in 0..MaxPos : OnTimestamp(est)
    \/ \E numFrames \in 1..MaxWriteFrames : Write(numFrames, "none", "OK", "OK", 1)
    \/ RequestPause("OK")
    \/ OnDisconnect
    \/ SetOffloadEndOfStream("abort")
    \/ CallReturns
    \/ TaskStart
    \/ TaskCancelled
    \/ TaskExpired
    \/ TaskInvoke
    \/ TaskCallbackReturn

SpecEosWrite == InitEosWrite /\ [][NextEosWrite]_vars

\* setOffloadEndOfStream() has just enqueued the runnable of a stream
\* without data callback.
EosWaitScheduled ==
    /\ lastCall.op = "setOffloadEndOfStream"
    /\ lastCall.result = "OK"
    /\ ~dataCallbackSet

\* C13 as stated: the wait scheduled by setOffloadEndOfStream() lasts the
\* time the device takes to consume the frames in the endpoint at the call.
C13_WaitsForOccupancy ==
    EosWaitScheduled =>
        lastCall.streamEndNanos = ConvertDeltaPositionToTime(FullFramesAvailable(rd, wr))

\* C13 amended: the wait lasts the time the device takes to consume the
\* frames in the endpoint at the call less one burst, and no time when the
\* endpoint holds less than one burst.
C13_WaitsForOccupancyLessBurst ==
    EosWaitScheduled =>
        lastCall.streamEndNanos =
            IF wr - rd > DeviceFramesPerBurst
            THEN ConvertDeltaPositionToTime((wr - rd) - DeviceFramesPerBurst)
            ELSE 0

\* The endpoint held two frames at the call and the wait lasts the time of
\* one.
C13_WaitOneBurstShort ==
    /\ EosWaitScheduled
    /\ wr - rd = 2
    /\ lastCall.streamEndNanos = ConvertDeltaPositionToTime(1)

\* write() has just moved frames into the endpoint.
WriteAccepted == lastCall.op = "write" /\ lastCall.wrote > 0

\* C14 as stated: new data cancels a pending end of stream: once write() has
\* accepted frames, mOffloadEosPending is false.
C14_NewDataCancelsEos ==
    WriteAccepted => ~mOffloadEosPending

\* C14 amended: write() leaves mOffloadEosPending as it found it, so the
\* wait of a pending end of stream goes on.
C14_WriteKeepsEosPending ==
    [][lastCall'.op = "write" => mOffloadEosPending' = mOffloadEosPending]_vars

\* write() accepted frames while the runnable of a pending end of stream was
\* waiting, and the end of stream is still pending.
C14_WrittenWhilePending ==
    /\ WriteAccepted
    /\ mOffloadEosPending
    /\ taskPc = "waiting"

\* C15: setOffloadEndOfStream() returns UNIMPLEMENTED exactly when the
\* stream is not offloaded or not exclusive and, on an offloaded exclusive
\* stream, INVALID_STATE exactly when the stream is not STARTED or its clock
\* model is starting; a call that returns an error leaves mOffloadEosPending
\* and the queue of mStreamEndExecutor as they were.
C15_EosRejections ==
    [][lastCall'.op = "setOffloadEndOfStream" =>
          LET offloadExclusive == /\ performanceMode = "POWER_SAVING_OFFLOADED"
                                  /\ sharingMode = "EXCLUSIVE"
              running == state = "STARTED" /\ clockState # "starting"
          IN /\ lastCall'.result = "UNIMPLEMENTED" <=> ~offloadExclusive
             /\ lastCall'.result = "INVALID_STATE" <=> (offloadExclusive /\ ~running)
             /\ lastCall'.result # "OK" =>
                   /\ mOffloadEosPending' = mOffloadEosPending
                   /\ execQueue' = execQueue
                   /\ eosCount' = eosCount]_vars

\* A disconnected stream with a pending end of stream and its runnable
\* waiting was told the end of the stream again: INVALID_STATE, the first
\* end of stream still pending.
C15_RejectedWhilePending ==
    /\ lastCall.op = "setOffloadEndOfStream"
    /\ lastCall.result = "INVALID_STATE"
    /\ mOffloadEosPending
    /\ taskPc = "waiting"
    /\ execQueue = <<>>

\* ------------------------------------------------------ pause and flush
\* SpecRequests: requestPause_l() and requestFlush_l() called in every
\* state of an offloaded exclusive stream, released or not, with the end of
\* stream and the worker of mStreamEndExecutor.
InitRequests == (\E dcs \in BOOLEAN : Opened(dcs, TRUE)) /\ NoCallers

NextRequests ==
    \/ RequestStart
    \/ OnEventFromServer
    \/ \E est \in 0..MaxPos : OnTimestamp(est)
    \/ OnDisconnect
    \/ Release
    \/ \E rpc \in RpcResults : RequestPause_l(rpc)
    \/ \E rpc \in RpcResults : RequestFlush(rpc)
    \/ SetOffloadEndOfStream("abort")
    \/ CallReturns
    \/ TaskStart
    \/ TaskCancelled
    \/ TaskExpired
    \/ TaskInvoke
    \/ TaskCallbackReturn

SpecRequests == InitRequests /\ [][NextRequests]_vars

\* The last step was requestPause_l() or requestFlush_l().
PauseOrFlush == lastCall.op \in {"requestPause", "requestFlush"}

\* C16: requestPause_l() and requestFlush_l() on a valid handle issue the
\* remote call, and when it is issued the state is already PAUSING
\* (FLUSHING), mOffloadEosPending is already false and its waiter notified;
\* requestPause_l() has by then halted the callback loop and stopped the
\* clock model.
C16_LocalBeforeRemote ==
    (PauseOrFlush /\ handleValid) =>
        /\ lastCall.sent.issued
        /\ lastCall.sent.state =
              (IF lastCall.op = "requestPause" THEN "PAUSING" ELSE "FLUSHING")
        /\ ~lastCall.sent.pending
        /\ lastCall.sent.notified
        /\ lastCall.op = "requestPause" =>
              (lastCall.sent.halted /\ lastCall.sent.clock = "stopped")

\* requestPause_l() ran while the runnable of a pending end of stream was
\* waiting and the service then failed the pause: the runnable has its
\* notification and the stream is PAUSING.
C16_PausedWhileWaiting ==
    /\ lastCall.op = "requestPause"
    /\ lastCall.result = "NO_SERVICE"
    /\ lastCall.sent.issued
    /\ taskPc = "waiting"
    /\ curTask \in cancelled
    /\ state = "PAUSING"

C18_CallbackWriteIsWhole ==
    (lastCall.op = "write" /\ dataCallbackSet) =>
        /\ lastCall.result = "OK" => lastCall.frames = lastCall.numFrames
        /\ lastCall.wrote # lastCall.numFrames =>
              /\ lastCall.result =
                    (IF state = "DISCONNECTED" THEN "DISCONNECTED" ELSE "TIMEOUT")
              /\ lastCall.errorCallbacks = 1

\* The thread of the data callback gave two frames to a connected stream
\* whose endpoint had room for one: TIMEOUT and one error callback.
C18_ShortWriteTimesOut ==
    /\ dataCallbackSet
    /\ lastCall.op = "write"
    /\ lastCall.numFrames = 2
    /\ lastCall.wrote = 1
    /\ lastCall.result = "TIMEOUT"
    /\ lastCall.errorCallbacks = 1

\* C19: when mayNeedToDrain() holds on a stream without data callback and a
\* drain is pending, write() calls activateStream once; if that succeeds the
\* pending drain is given up (mDraining is true afterwards only if this
\* write armed a new drain), and if it fails write() returns the error,
\* DISCONNECTED on a disconnected stream, with no frame written and
\* mDraining still true.  No other write() calls activateStream.
C19_WriteActivatesPendingDrain ==
    [][lastCall'.op = "write" =>
          IF MayNeedToDrain(state, clockState) /\ ~dataCallbackSet /\ mDraining
          THEN /\ lastCall'.activates = 1
               /\ lastCall'.activate # "none"
               /\ lastCall'.activate = "done" =>
                     /\ mDraining' = (lastCall'.drain = "armed")
                     /\ lastCall'.drain # "armed" => mWakeUpHandle' = INVALID_HANDLE
               /\ lastCall'.activate = "failed" =>
                     /\ lastCall'.result = (IF state' = "DISCONNECTED"
                                            THEN "DISCONNECTED" ELSE "NO_SERVICE")
                     /\ lastCall'.wrote = 0
                     /\ wr' = wr
                     /\ mDraining'
                     /\ mWakeUpHandle' = mWakeUpHandle
          ELSE lastCall'.activates = 0]_vars

\* A stream without data callback, with a drain pending, was written while
\* the service was gone and a disconnect event waiting: DISCONNECTED and the
\* drain still pending.
C19_ActivateFailedDisconnected ==
    /\ ~dataCallbackSet
    /\ lastCall.op = "write"
    /\ lastCall.activate = "failed"
    /\ lastCall.result = "DISCONNECTED"
    /\ mDraining

\* write() has just returned a frame count on a stream that may need to
\* drain.
WroteMayDrain ==
    /\ lastCall.op = "write"
    /\ lastCall.result = "OK"
    /\ MayNeedToDrain(state, clockState)

\* C20 as stated: after a successful write of a stream that may need to
\* drain, the drain is armed exactly when the endpoint holds more than the
\* device buffer less the safe margin and more than one second of audio.
C20_DrainedOverOneSecond ==
    WroteMayDrain =>
        (lastCall.drain = "armed" <=>
            /\ wr - rd > DeviceBufferSize - mOffloadSafeMarginInFrames
            /\ wr - rd > DeviceSampleRate)

\* C20 amended: the drain is requested exactly when the endpoint holds more
\* than the device buffer less the safe margin and more than one second of
\* audio plus the safe margin; an armed drain marks the stream as draining
\* and lasts the time the device takes to consume the frames in the
\* endpoint less the safe margin.
C20_DrainedOverOneSecondPlusMargin ==
    lastCall.op = "write" =>
        LET full == wr - rd
            over == /\ full > DeviceBufferSize - mOffloadSafeMarginInFrames
                    /\ full > DeviceSampleRate + mOffloadSafeMarginInFrames
        IN /\ WroteMayDrain => (lastCall.drain = "armed" <=> over)
           /\ lastCall.drain # "none" => over
           /\ lastCall.drain = "armed" =>
                 /\ mDraining
                 /\ lastCall.drainNanos =
                       ((full - mOffloadSafeMarginInFrames) * AAUDIO_MILLIS_PER_SECOND)
                           \div DeviceSampleRate

\* A write filled the device buffer of four frames: the drain is armed for
\* the time of two frames.
C20_FullBufferDrains ==
    /\ lastCall.op = "write"
    /\ lastCall.drain = "armed"
    /\ mDraining
    /\ wr - rd = DeviceBufferSize
    /\ lastCall.drainNanos = 2 * AAUDIO_MILLIS_PER_SECOND

\* ---------------------------------------------------------------- SpecFbw
\* Two FixedBlockWriters with the same block size and the same downstream
\* processor are fed the same byte stream, each cut into calls of
\* processVariableBlock() in its own way.
Streams == UNION {[1..n -> 0..MaxByte] : n \in 1..MaxStreamLen}

InitFbw ==
    /\ OpenedStream("NONE", "SHARED", TRUE, FALSE)
    /\ NoCallers
    /\ \E size \in 1..MaxBlockSize, stream \in Streams, processor \in Processors :
          /\ fbConfig = [mSize |-> size, stream |-> stream, processor |-> processor]
          /\ fbWriters = [x \in Writers |-> OpenedWriter(size)]
    /\ pvb = NoBlockCall

\* Writer x is handed the next numBytes bytes of the stream in one call.
FeedWriter(x, numBytes) ==
    LET w == fbWriters[x]
    IN  /\ w.result = AAUDIO_CALLBACK_RESULT_CONTINUE
        /\ w.fed + numBytes <= Len(fbConfig.stream)
        /\ fbWriters' = [fbWriters EXCEPT ![x] =
               ProcessVariableBlock(w, fbConfig.mSize, fbConfig.processor,
                   SubSeq(fbConfig.stream, w.fed + 1, w.fed + numBytes))]
        /\ UNCHANGED <<configVars, loopVars, openVars, copyVars, fbConfig, pvb, state, handleValid, clockVars,
                       mNeedCatchUp, posVars, mOffloadEosPending, drainVars,
                       execVars, aborted, lastCall, peVars>>

NextFbw == \E x \in Writers, numBytes \in 1..MaxStreamLen : FeedWriter(x, numBytes)

SpecFbw == InitFbw /\ [][NextFbw]_vars

\* The writer has been handed the whole stream.
FedAll(x) == fbWriters[x].fed = Len(fbConfig.stream)

\* C21: with a downstream processor that consumes every block completely,
\* two writers that were handed the same whole stream, cut into calls in
\* any two ways, have dispatched the same sequence of blocks.
C21_ChunkingInvariant ==
    (fbConfig.processor = "whole" /\ FedAll("a") /\ FedAll("b"))
        => fbWriters["a"].blocks = fbWriters["b"].blocks

\* --------------------------------------------------------------- SpecOpen
\* The results of AudioStreamInternal::open() and of mFlowGraph.configure().
OpenResults == {"OK", "UNIMPLEMENTED"}

\* The stream after construction, before open(): the builder holds the
\* configuration, nothing is acquired.
Constructed(pm, sm, dcs, ps) ==
    /\ performanceMode = pm
    /\ sharingMode = sm
    /\ dataCallbackSet = dcs
    /\ procSet = ps
    /\ state = "UNINITIALIZED"
    /\ handleValid = FALSE
    /\ clockState = "stopped"
    /\ clockPos = 0
    /\ mNeedCatchUp = FALSE
    /\ mFramesOffsetFromService = 0
    /\ mLastFramesRead = 0
    /\ mLastFramesWritten = 0
    /\ rd = 0
    /\ wr = 0
    /\ mOffloadEosPending = FALSE
    /\ mDraining = FALSE
    /\ mWakeUpHandle = INVALID_HANDLE
    /\ mPresentationEndCallbackThread = CALLBACK_THREAD_NONE
    /\ svcTimers = {}
    /\ mStreamEndExecutor = FALSE
    /\ execQueue = <<>>
    /\ taskPc = "idle"
    /\ curTask = 0
    /\ writerPc = "idle"
    /\ wnwc = NoCopy
    /\ loopPc = "off"
    /\ loop = NoLoop
    /\ mStreamMutex = "free"
    /\ eosCount = 0
    /\ cancelled = {}
    /\ aborted = FALSE
    /\ lastCall = NoCall
    /\ peRuns = 0

\* open(): the result returned, given the results of the base open and of
\* the configuration of the flow graph, which runs only after a base open
\* that succeeded.
OpenResult(baseResult, configureResult) ==
    IF baseResult = "OK" THEN configureResult ELSE baseResult

\* open(): safeReleaseClose() runs when the flow graph cannot be configured.
OpenReleases(baseResult, configureResult) ==
    baseResult = "OK" /\ configureResult # "OK"

\* open().  A base open that fails has acquired nothing when it returns; the
\* stream that was released is closed and has no service handle.  The
\* executor is emplaced after the configuration, whatever its result.
Open(baseResult, configureResult) ==
    /\ Callable
    /\ state = "UNINITIALIZED"
    /\ state' = IF OpenResult(baseResult, configureResult) = "OK"
                THEN "OPEN" ELSE "CLOSED"
    /\ handleValid' = (OpenResult(baseResult, configureResult) = "OK")
    /\ mStreamEndExecutor' = ExecutorCreated(dataCallbackSet, procSet)
    /\ lastCall' = [op |-> "open",
                    result |-> OpenResult(baseResult, configureResult),
                    configure |-> IF baseResult = "OK" THEN configureResult ELSE "none",
                    released |-> OpenReleases(baseResult, configureResult)]
    /\ UNCHANGED <<configVars, loopVars, copyVars, fbVars, clockVars, mNeedCatchUp, posVars,
                   mOffloadEosPending, drainVars, execVars, aborted, peVars>>

InitOpen ==
    /\ \E pm \in PerformanceModes, sm \in SharingModes, dcs \in BOOLEAN, ps \in BOOLEAN :
          Constructed(pm, sm, dcs, ps)
    /\ NoCallers
    /\ NoWriters

NextOpen ==
    \/ \E baseResult \in OpenResults, configureResult \in OpenResults :
          Open(baseResult, configureResult)
    \/ RequestStart
    \/ OnEventFromServer
    \/ \E est \in 0..MaxPos : OnTimestamp(est)
    \/ SetOffloadEndOfStream("abort")
    \/ CallReturns
    \/ TaskStart
    \/ TaskCancelled
    \/ TaskExpired
    \/ TaskInvoke
    \/ TaskCallbackReturn

SpecOpen == InitOpen /\ [][NextOpen]_vars

\* open() has returned after the configuration of the flow graph failed.
ConfigureFailed == lastCall.op = "open" /\ lastCall.configure \notin {"OK", "none"}

\* C22: when open() returns after the configuration of the flow graph
\* failed, it returns the error of the configuration, what the base open
\* acquired has been released, and the stream has no presentation-end
\* executor.
C22_FailedOpenLeavesNothing ==
    ConfigureFailed =>
        /\ lastCall.result = lastCall.configure
        /\ lastCall.released
        /\ ~handleValid
        /\ ~mStreamEndExecutor

\* --------------------------------------------------------------- SpecRace
\* A write() in two steps, as the thread that runs it takes them, while
\* flushFromFrame_l() runs in another thread.  The first step is write() up
\* to getEmptyFramesAvailable() in writeNowWithConversion(): no drain is
\* pending, processCommands() finds nothing, the clock model has timestamps,
\* processDataNow() updates the read counter and catches up; the thread then
\* knows where it copies the frames (at) and how many (frames).
WriteNowBegin(numFrames) ==
    /\ Callable
    /\ handleValid
    /\ writerPc = "idle"
    /\ wnwc = NoCopy
    /\ IsActive(state)
    /\ clockState = "running"
    /\ ~NeedsActivate(MayNeedToDrain(state, clockState), dataCallbackSet, mDraining)
    /\ LET rd1 == clockPos
           off1 == IF mNeedCatchUp
                   THEN AdvancedOffset(mFramesOffsetFromService, rd1, wr,
                                       DeviceFramesPerBurst)
                   ELSE mFramesOffsetFromService
           wr1 == IF mNeedCatchUp THEN AdvancedWriteCounter(rd1, DeviceFramesPerBurst)
                  ELSE wr
       IN  /\ wr1 + off1 <= MaxPos
           /\ rd' = rd1
           /\ mFramesOffsetFromService' = off1
           /\ wr' = wr1
           /\ mNeedCatchUp' = FALSE
           /\ wnwc' = [pc |-> "copy", numFrames |-> numFrames, at |-> wr1,
                       frames |-> Min(numFrames, EmptyFramesAvailable(rd1, wr1))]
    /\ lastCall' = NoCall
    /\ UNCHANGED <<configVars, loopVars, openVars, fbVars, state, handleValid, clockVars,
                   mLastFramesRead, mLastFramesWritten, mOffloadEosPending,
                   drainVars, execVars, aborted, peVars>>

\* The second step: advanceWriteIndex() and the rest of write().  The run
\* keeps to writes after which no drain is armed.
WriteNowAdvance ==
    /\ Callable
    /\ wnwc.pc = "copy"
    /\ LET wr2 == wr + wnwc.frames
           failed == CallbackWriteFails(dataCallbackSet, FALSE, wnwc.frames,
                                        wnwc.numFrames)
       IN  /\ wr2 + mFramesOffsetFromService <= MaxPos
           /\ ~(MayNeedToDrain(state, clockState)
                  /\ ShouldDrain(FullFramesAvailable(rd, wr2)))
           /\ wr' = wr2
           /\ lastCall' = [op |-> "write", numFrames |-> wnwc.numFrames,
                           activates |-> 0, activate |-> "none",
                           result |-> IF failed THEN "TIMEOUT" ELSE "OK",
                           frames |-> IF failed THEN 0 ELSE wnwc.frames,
                           errorCallbacks |-> IF failed THEN 1 ELSE 0,
                           wrote |-> wnwc.frames,
                           drain |-> "none", drainNanos |-> 0]
    /\ wnwc' = NoCopy
    /\ mOffloadEosPending' = WrittenPending(mOffloadEosPending)
    /\ UNCHANGED <<configVars, loopVars, openVars, fbVars, state, handleValid, clockVars,
                   mNeedCatchUp, mFramesOffsetFromService, mLastFramesRead,
                   mLastFramesWritten, rd, drainVars, execVars, aborted, peVars>>

InitRace == (\E dcs \in BOOLEAN : Opened(dcs, TRUE)) /\ NoCallers

NextRace ==
    \/ RequestStart
    \/ OnEventFromServer
    \/ \E est \in 0..MaxPos : OnTimestamp(est)
    \/ \E numFrames \in 1..MaxWriteFrames : WriteNowBegin(numFrames)
    \/ WriteNowAdvance
    \/ \E accuracy \in Accuracies, position \in 0..MaxPos :
          FlushFromFrame(accuracy, position, "OK", "none", 0)
    \/ CallReturns

SpecRace == InitRace /\ [][NextRace]_vars

\* C23: while a thread is between getEmptyFramesAvailable() and
\* advanceWriteIndex(), the write counter is the one that thread saw: no
\* setDataWriteCounter() of flushFromFrame_l() has taken effect, and the
\* counter after a flush is the flushed one plus the frames copied after it.
C23_WriteCounterHasOneWriter == wnwc.pc = "copy" => wr = wnwc.at

\* drainStream_l() registered a wake-up with the service in the step.
DrainRegistered == lastCall'.op = "write" /\ lastCall'.drain = "armed"

\* C24: when drainStream_l() registers a wake-up handle, no handle
\* registered before is still outstanding at the service: each has fired
\* (onWakeUp) or was cancelled with activateStream, at the latest by the
\* write() that registers the new one.
C24_OneWakeUpOutstanding ==
    [][DrainRegistered => (svcTimers = {} \/ lastCall'.activate = "done")]_vars

\* SpecWake: the offload drain of a started stream whose remote calls
\* succeed, with flushFromFrame_l() called while a drain may be pending.
NextWake ==
    \/ RequestStart
    \/ OnEventFromServer
    \/ \E est \in 0..MaxDrainClock : OnTimestamp(est)
    \/ \E numFrames \in 1..MaxWriteFrames, h \in 1..MaxHandle :
          WriteUpTo(MaxDrainPos, numFrames, "none", "OK", "OK", h)
    \/ DrainWaitNotified
    \/ DrainWaitTimeout
    \/ \E handle \in 1..MaxHandle : OnWakeUp(handle)
    \/ \E accuracy \in Accuracies, position \in 0..MaxDrainPos :
          FlushFromFrame(accuracy, position, "OK", "none", 0)
    \/ CallReturns

SpecWake == InitDrain /\ [][NextWake]_vars

\* C25: processDataNow() never lowers the read counter of the endpoint: an
\* estimate of the clock model below the current read counter is ignored.
C25_ReadCounterNeverDecreases == [][lastCall'.op = "write" => rd' >= rd]_vars

\* The step is a write() that found a catch-up request and served it.
CatchUpApplied == lastCall'.op = "write" /\ mNeedCatchUp /\ ~mNeedCatchUp'

\* The step starts the stream (prepareBuffersForStart()) or handles the
\* FLUSHED event of the service (onFlushFromServer()).
ServerPositionMatched ==
    \/ state # "STARTING" /\ state' = "STARTING"
    \/ state = "FLUSHING" /\ state' = "FLUSHED"

\* C26: a write() that finds a catch-up request sets the write counter one
\* burst after the read counter it has just estimated, before it adds the
\* frames it writes, adds the old write counter less that position to the
\* frame offset and clears the request; a write() that finds no request
\* leaves the offset alone and only adds the frames it writes; the start of
\* the stream and the FLUSHED event keep the read counter, set the write
\* counter to it and add the old occupancy to the frame offset.
C26_ClientMatchesServerPosition ==
    [][/\ CatchUpApplied =>
             /\ wr' = rd' + DeviceFramesPerBurst + lastCall'.wrote
             /\ mFramesOffsetFromService' =
                    mFramesOffsetFromService + (wr - (rd' + DeviceFramesPerBurst))
       /\ (lastCall'.op = "write" /\ ~mNeedCatchUp) =>
             /\ ~mNeedCatchUp'
             /\ wr' = wr + lastCall'.wrote
             /\ mFramesOffsetFromService' = mFramesOffsetFromService
       /\ ServerPositionMatched =>
             /\ rd' = rd
             /\ wr' = rd
             /\ wr' - rd' = 0
             /\ mFramesOffsetFromService' = mFramesOffsetFromService + (wr - rd)
      ]_vars

\* A write() has served a catch-up request, which moved the write counter
\* forward, and has written frames after it.
C26_CaughtUpOverData ==
    /\ lastCall.op = "write"
    /\ lastCall.wrote > 0
    /\ ~mNeedCatchUp
    /\ wr = rd + DeviceFramesPerBurst + lastCall.wrote
    /\ mFramesOffsetFromService < 0

\* write() has returned from a pass of processDataNow() that wrote with the
\* stream STARTED and left the endpoint at or above the device buffer size.
WroteIntoFullBuffer ==
    /\ lastCall.op = "write"
    /\ lastCall.activate # "failed"
    /\ state = "STARTED"
    /\ clockState = "running"
    /\ FullFramesAvailable(rd, wr) >= DeviceBufferSize

ShouldStopStreamAlways(pm, pending) == TRUE
ShouldStopStream(pm, pending) ==
    IF pm # "POWER_SAVING_OFFLOADED" THEN TRUE ELSE ~pending

\* callbackLoop(), after the end-of-stream wait: presentation end is called
\* if the flag is still set or the wake-up time has passed.
FiresAfterWait(pending, expired) == pending \/ expired

\* The callback thread of a stream with a data callback enters callbackLoop().
LoopStart ==
    /\ Callable
    /\ loopPc = "off"
    /\ dataCallbackSet
    /\ IsActive(state)
    /\ loopPc' = "top"
    /\ loop' = NoLoop
    /\ lastCall' = NoCall
    /\ UNCHANGED mStreamMutex
    /\ UNCHANGED <<configVars, openVars, copyVars, fbVars, state, handleValid, clockVars,
                   mNeedCatchUp, posVars, mOffloadEosPending, drainVars, execVars,
                   aborted, peVars>>

\* The head of one iteration: the test of the while, processCommands()
\* (found: it meets a disconnect event) and, on an offloaded stream whose end
\* of stream is pending, drainStream_l() for the frames of the endpoint less
\* one burst (drainRes its result, h the handle the service returns); the
\* thread then waits on mStreamEndCV, or goes on to the data callback.
LoopTop(found, drainRes, h) ==
    /\ Callable
    /\ loopPc = "top"
    /\ writerPc = "idle"
    /\ peRuns < MaxEos
    /\ IF ~IsActive(state)
       THEN /\ loopPc' = "done"
            /\ UNCHANGED <<state, mWakeUpHandle, svcTimers>>
       ELSE /\ state' = AfterCommands(state, found)
            /\ IF performanceMode = "POWER_SAVING_OFFLOADED" /\ mOffloadEosPending
               THEN IF drainRes = "OK"
                    THEN /\ mWakeUpHandle' = h
                         /\ svcTimers' = svcTimers \cup {h}
                         /\ loopPc' = "eosWait"
                    ELSE /\ loopPc' = "done"
                         /\ UNCHANGED <<mWakeUpHandle, svcTimers>>
               ELSE /\ loopPc' = "callback"
                    /\ UNCHANGED <<mWakeUpHandle, svcTimers>>
    /\ lastCall' = NoCall
    /\ UNCHANGED <<configVars, openVars, copyVars, fbVars, loop, mStreamMutex, handleValid,
                   clockVars, mNeedCatchUp, posVars, mOffloadEosPending, mDraining,
                   writerPc, execVars, aborted, peVars>>

\* gettid() of the callback thread.
LoopTid == ExecutorTid + NumCallers + 1

\* The wait on mStreamEndCV ends: the flag was cleared, or the time is up.
\* expired tells whether the thread resumes at or after wakeUpNanos.  The
\* thread, which holds mStreamMutex again, calls
\* maybeCallPresentationEndCallback() and enters the application's callback
\* if there is one and no other thread is inside it; else it clears the flag
\* if it made the call, leaves the lock and goes on to the data callback.
LoopEosWaitEnds(expired) ==
    /\ Callable
    /\ loopPc = "eosWait"
    /\ ~mOffloadEosPending \/ expired
    /\ IF FiresAfterWait(mOffloadEosPending, expired)
       THEN IF procSet /\ CasSucceeds(mPresentationEndCallbackThread)
            THEN /\ mPresentationEndCallbackThread' = LoopTid
                 /\ peRuns' = peRuns + 1
                 /\ loopPc' = "presentationEnd"
                 /\ mStreamMutex' = "callbackLoop"
                 /\ UNCHANGED mOffloadEosPending
            ELSE /\ mOffloadEosPending' = FALSE
                 /\ loopPc' = "callback"
                 /\ UNCHANGED <<mPresentationEndCallbackThread, peRuns, mStreamMutex>>
       ELSE /\ loopPc' = "callback"
            /\ UNCHANGED <<mPresentationEndCallbackThread, peRuns, mStreamMutex,
                           mOffloadEosPending>>
    /\ lastCall' = NoCall
    /\ UNCHANGED <<configVars, openVars, copyVars, fbVars, loop, state, handleValid,
                   clockVars, mNeedCatchUp, posVars, drainVars, execQueue, taskPc,
                   curTask, eosCount, cancelled, aborted, peVars>>

\* The presentation-end callback returns to the callback thread, which
\* stores CALLBACK_THREAD_NONE, clears the flag and leaves the lock.
LoopPresentationEndReturns ==
    /\ ~aborted
    /\ loopPc = "presentationEnd"
    /\ mPresentationEndCallbackThread' = CALLBACK_THREAD_NONE
    /\ mOffloadEosPending' = FALSE
    /\ loopPc' = "callback"
    /\ mStreamMutex' = "free"
    /\ lastCall' = NoCall
    /\ UNCHANGED <<configVars, openVars, copyVars, fbVars, loop, state, handleValid,
                   clockVars, mNeedCatchUp, posVars, drainVars, execQueue, taskPc,
                   curTask, eosCount, cancelled, peRuns, aborted, peVars>>

\* The data callback returns a frame count: the loop writes that many frames
\* of the callback buffer and goes on if write() took them all.
LoopWrite(numFrames, drainRes, h) ==
    /\ loopPc = "callback"
    /\ WriteCall(MaxDrainPos, numFrames, "none", "OK", drainRes, h)
    /\ loopPc' = IF lastCall'.result = "OK" /\ lastCall'.frames = numFrames
                 THEN "top" ELSE "done"
    /\ loop' = [signal |-> "data", written |-> TRUE, stopped |-> FALSE]
    /\ UNCHANGED mStreamMutex

\* The data callback asks to stop (callbackResult < 0): the loop goes on
\* without a write if shouldStopStream() refuses, else it stops the stream
\* with systemStopInternal() (rpc the result of the remote stop) and leaves.
LoopStopSignal(rpc) ==
    /\ Callable
    /\ loopPc = "callback"
    /\ UNCHANGED mStreamMutex
    /\ IF ~ShouldStopStream(performanceMode, mOffloadEosPending)
       THEN /\ loopPc' = "top"
            /\ loop' = [signal |-> "stop", written |-> FALSE, stopped |-> FALSE]
            /\ lastCall' = NoCall
            /\ UNCHANGED <<configVars, openVars, copyVars, fbVars, state, handleValid,
                           clockVars, mNeedCatchUp, posVars, mOffloadEosPending,
                           drainVars, execVars, aborted, peVars>>
       ELSE /\ loopPc' = "done"
            /\ loop' = [signal |-> "stop", written |-> FALSE, stopped |-> TRUE]
            /\ IF state \in {"STARTING", "STARTED", "PAUSING", "PAUSED"}
               THEN RequestStop_l(rpc)
               ELSE /\ lastCall' = NoCall
                    /\ UNCHANGED <<configVars, openVars, copyVars, fbVars, state,
                                   handleValid, clockVars, mNeedCatchUp, posVars,
                                   mOffloadEosPending, drainVars, execVars, aborted,
                                   peVars>>

\* flushFromFrame_l() called while the callback thread waits for the end of
\* the stream.
FlushWhileWaiting(accuracy, position) ==
    /\ loopPc = "eosWait"
    /\ FlushFromFrame(accuracy, position, "OK", "none", 0)

\* SpecLoop: a stream with a data callback and its callback thread, whose
\* drains all get wake-up handle 1, with flushFromFrame_l() called while the
\* thread waits for the end of the stream.
InitLoop ==
    /\ \E pm \in PerformanceModes : OpenedAs(pm, "EXCLUSIVE", TRUE, TRUE)
    /\ NoCallers

NextLoop ==
    \/ RequestStart
    \/ OnEventFromServer
    \/ \E est \in 0..MaxDrainClock : OnTimestamp(est)
    \/ LoopStart
    \/ \E found \in BOOLEAN, drainRes \in RpcResults :
          LoopTop(found, drainRes, 1)
    \/ \E expired \in BOOLEAN : LoopEosWaitEnds(expired)
    \/ LoopPresentationEndReturns
    \/ \E numFrames \in 1..MaxWriteFrames : LoopWrite(numFrames, "OK", 1)
    \/ \E rpc \in RpcResults : LoopStopSignal(rpc)
    \/ DrainWaitNotified
    \/ DrainWaitTimeout
    \/ \E handle \in 1..MaxHandle : OnWakeUp(handle)
    \/ SetOffloadEndOfStream("abort")
    \/ \E accuracy \in Accuracies, position \in 0..MaxDrainPos :
          FlushWhileWaiting(accuracy, position)
    \/ CallReturns

SpecLoop == InitLoop /\ [][NextLoop]_vars

\* The loop has stopped the stream on the data callback's request.
LoopStopped == loop.signal = "stop" /\ loop.stopped

\* C28: when the data callback asks to stop and the loop stops the stream
\* for it, the buffer of that callback invocation has been passed to write().
C28_StopStillWritesBuffer == LoopStopped => loop.written

\* The data callback of this step asked to stop.
StopSignalled == loopPc = "callback" /\ loopPc' # "callback" /\ loop'.signal = "stop"

\* The callback thread stops the stream in this step.
LoopStopsStream == loopPc' # loopPc /\ state' = "STOPPING" /\ state # "STOPPING"

\* C29: on an offloaded stream, a stop asked by the data callback while the
\* end of stream is pending neither stops the stream nor ends the loop, which
\* goes back to the head of the iteration; and the loop stops the stream
\* only for a stop asked while no end of stream is pending.
C29_PendingEosDefersStop ==
    [][/\ (StopSignalled /\ performanceMode = "POWER_SAVING_OFFLOADED"
              /\ mOffloadEosPending)
          => (loopPc' = "top" /\ state' = state /\ ~loop'.stopped)
       /\ LoopStopsStream
          => (StopSignalled
                /\ ~(performanceMode = "POWER_SAVING_OFFLOADED"
                       /\ mOffloadEosPending))]_vars

\* The loop went on after a deferred stop and waits out the end of stream.
C29_WaitsAfterDeferredStop ==
    /\ loopPc = "eosWait"
    /\ loop.signal = "stop"
    /\ ~loop.stopped
    /\ state = "STARTED"

\* The end of stream the thread waits for was called off: the flag is
\* cleared while the wake-up timer of the wait has not fired.
WaitCancelled ==
    loopPc = "eosWait" /\ ~mOffloadEosPending /\ mWakeUpHandle \in svcTimers

\* C30: the callback thread that resumes from a wait whose end of stream was
\* called off (flushFromFrame, pause, stop, flush) does not call the
\* presentation-end callback.
C30_CancelledWaitDoesNotFire ==
    [][(WaitCancelled /\ loopPc' # "eosWait") => peRuns' = peRuns]_vars

\* C31: a flushFromFrame that returns AAUDIO_OK sets a position that is not
\* beyond the value getFramesWritten() had when the call began, and
\* getFramesWritten() after the call is not beyond it either.
C31_FlushNeverMovesForward ==
    [][(lastCall'.op = "flushFromFrame" /\ lastCall'.result = "OK") =>
           /\ lastCall'.out <= FramesWrittenNow
           /\ FramesWrittenNow' = lastCall'.out]_vars

\* C31, its case: a successful flush with ACCURATE accuracy to a position
\* that frames had been written past the start.
C31_RewoundToWrittenFrame ==
    /\ Flushed
    /\ lastCall.result = "OK"
    /\ lastCall.accuracy = "ACCURATE"
    /\ lastCall.out >= 1
    /\ wr + mFramesOffsetFromService = lastCall.out

\* C33: with a downstream processor that consumes every block completely, a
\* writer holds fewer than mSize bytes in storage after any call of
\* processVariableBlock().
C33_OnlyPartialBlockCarried ==
    fbConfig.processor = "whole"
        => \A x \in Writers : fbWriters[x].mPosition < fbConfig.mSize

\* ---------------------------------------------------------------- SpecBlocks
\* processVariableBlock() on writer "a", statement by statement, with a
\* downstream processor that may return any value from -1 to mSize at each
\* call.  The bytes handed in are numbered in the order of the stream; a call
\* begins where the bytes reported as processed so far end.

\* What onProcessFixedBlock() may return for a block of size bytes.
ProcessorReturns(size) == -1..size

\* The call returns: the writer with its storage, position and result, and
\* the bytes processed reported.
BlockCallReturns(w, call, result) ==
    /\ fbWriters' = [fbWriters EXCEPT !["a"] =
                        [w EXCEPT !.result = result, !.fed = @ + call.total]]
    /\ pvb' = [call EXCEPT !.pc = "returned"]

\* The call up to the write-through loop: the partial block in storage is
\* topped up and, when that completes it, handed to the processor, which
\* returns bytes.
TopUpStorage(numBytes, bytes) ==
    LET w == fbWriters["a"]
        size == fbConfig.mSize
        buffer == [i \in 1..numBytes |-> w.fed + i]
        call == [NoBlockCall EXCEPT !.numBytes = numBytes, !.buffer = buffer]
    IN  /\ pvb.pc \in {"idle", "returned"}
        /\ w.result = AAUDIO_CALLBACK_RESULT_CONTINUE
        /\ w.fed + numBytes <= MaxFed
        /\ IF w.mPosition > 0
           THEN LET bytesWritten == BytesToStore(w, size, buffer)
                    w1 == WriteToStorage(w, size, buffer)
                    c1 == [call EXCEPT !.buffer = Advance(buffer, bytesWritten),
                                       !.total = bytesWritten,
                                       !.offered = numBytes,
                                       !.room = size - w.mPosition,
                                       !.stored = bytesWritten]
                    c2 == [c1 EXCEPT !.bytes = bytes, !.block = StoredBlock(w1, size)]
                IN  IF w1.mPosition = size
                    THEN IF bytes < 0
                         THEN BlockCallReturns([w1 EXCEPT !.mPosition = 0],
                                               [c2 EXCEPT !.topUp = "stop"],
                                               AAUDIO_CALLBACK_RESULT_STOP)
                         ELSE IF bytes # size
                         THEN BlockCallReturns(
                                  [w1 EXCEPT !.mPosition = size - bytes,
                                             !.mStorage = Moved(@, size, bytes,
                                                                size - bytes)],
                                  [c2 EXCEPT !.topUp = "partial"],
                                  AAUDIO_CALLBACK_RESULT_CONTINUE)
                         ELSE /\ fbWriters' = [fbWriters EXCEPT !["a"] =
                                                  [w1 EXCEPT !.mPosition = 0]]
                              /\ pvb' = [c2 EXCEPT !.pc = "loop", !.topUp = "whole"]
                    ELSE /\ fbWriters' = [fbWriters EXCEPT !["a"] = w1]
                         /\ pvb' = [c1 EXCEPT !.pc = "loop"]
           ELSE /\ pvb' = [call EXCEPT !.pc = "loop"]
                /\ UNCHANGED fbWriters
        /\ UNCHANGED <<configVars, loopVars, openVars, copyVars, fbConfig, state,
                       handleValid, clockVars, mNeedCatchUp, posVars,
                       mOffloadEosPending, drainVars, execVars, aborted, lastCall,
                       peVars>>

\* One iteration of the write-through loop: the processor is handed the next
\* mSize bytes of the input and returns bytes.
WriteThroughBlock(bytes) ==
    LET w == fbWriters["a"]
        size == fbConfig.mSize
        call == [pvb EXCEPT !.bytes = bytes, !.block = SubSeq(pvb.buffer, 1, size)]
    IN  /\ pvb.pc = "loop"
        /\ WriteThrough(Len(pvb.buffer), size)
        /\ IF bytes < 0
           THEN BlockCallReturns(w, call, AAUDIO_CALLBACK_RESULT_STOP)
           ELSE /\ pvb' = [call EXCEPT !.buffer = Advance(pvb.buffer, bytes),
                                       !.total = @ + bytes,
                                       !.pass = 1 - @]
                /\ UNCHANGED fbWriters
        /\ UNCHANGED <<configVars, loopVars, openVars, copyVars, fbConfig, state,
                       handleValid, clockVars, mNeedCatchUp, posVars,
                       mOffloadEosPending, drainVars, execVars, aborted, lastCall,
                       peVars>>

\* The loop is left: what remains of the input is saved in storage and the
\* call returns.
SavePartialBlock ==
    LET w == fbWriters["a"]
        size == fbConfig.mSize
        bytesWritten == BytesToStore(w, size, pvb.buffer)
    IN  /\ pvb.pc = "loop"
        /\ ~WriteThrough(Len(pvb.buffer), size)
        /\ IF Len(pvb.buffer) > 0
           THEN BlockCallReturns(WriteToStorage(w, size, pvb.buffer),
                                 [pvb EXCEPT !.buffer = Advance(@, bytesWritten),
                                             !.total = @ + bytesWritten,
                                             !.offered = Len(pvb.buffer),
                                             !.room = size - w.mPosition,
                                             !.stored = bytesWritten],
                                 AAUDIO_CALLBACK_RESULT_CONTINUE)
           ELSE BlockCallReturns(w, pvb, AAUDIO_CALLBACK_RESULT_CONTINUE)
        /\ UNCHANGED <<configVars, loopVars, openVars, copyVars, fbConfig, state,
                       handleValid, clockVars, mNeedCatchUp, posVars,
                       mOffloadEosPending, drainVars, execVars, aborted, lastCall,
                       peVars>>

InitBlocks ==
    /\ OpenedStream("NONE", "SHARED", TRUE, FALSE)
    /\ NoCallers
    /\ \E size \in 1..MaxBlockSize :
          /\ fbConfig = [mSize |-> size, stream |-> <<>>, processor |-> "each"]
          /\ fbWriters = [x \in Writers |-> OpenedWriter(size)]
    /\ pvb = NoBlockCall

NextBlocks ==
    \/ \E numBytes \in 1..MaxStreamLen, bytes \in ProcessorReturns(fbConfig.mSize) :
          TopUpStorage(numBytes, bytes)
    \/ \E bytes \in ProcessorReturns(fbConfig.mSize) : WriteThroughBlock(bytes)
    \/ SavePartialBlock

SpecBlocks == InitBlocks /\ [][NextBlocks]_vars

\* C32: when the top-up completes the block in storage and the processor
\* takes only bytes of it, 0 <= bytes < mSize, the call returns CONTINUE with
\* the mSize - bytes bytes it left at the front of storage in their order,
\* and reports as processed the bytes that topped the block up, whatever the
\* length of the input.
C32_PartialBlockKept ==
    [][(pvb'.pc = "returned" /\ pvb'.topUp = "partial") =>
           LET w == fbWriters["a"]
               after == fbWriters'["a"]
               size == fbConfig.mSize
           IN  /\ after.result = AAUDIO_CALLBACK_RESULT_CONTINUE
               /\ after.mPosition = size - pvb'.bytes
               /\ \A i \in 1..(size - pvb'.bytes) :
                     after.mStorage[i] = pvb'.block[pvb'.bytes + i]
               /\ pvb'.total = size - w.mPosition
               /\ after.fed = w.fed + pvb'.total
               /\ Len(pvb'.buffer) = pvb'.numBytes - pvb'.total]_vars

\* C32, its case: the processor took one byte of a block of two that the
\* call completed with the first byte of a longer input.
C32_OneByteOfTwoTaken ==
    /\ pvb.pc = "returned"
    /\ pvb.topUp = "partial"
    /\ pvb.bytes = 1
    /\ fbConfig.mSize = 2
    /\ pvb.numBytes > pvb.total
    /\ fbWriters["a"].mStorage[1] = pvb.block[2]

\* C39: processVariableBlock() terminates whatever the processor returns,
\* from a negative value to mSize: every iteration of the write-through loop
\* that does not return leaves less input than it found; and the count of
\* bytes processed that the call reports lies between 0 and numBytes.
C39_TerminatesAndReportsWithinInput ==
    [][/\ (pvb.pc = "loop" /\ pvb'.pc = "loop")
             => Len(pvb'.buffer) < Len(pvb.buffer)
       /\ pvb'.pc = "returned"
             => (0 <= pvb'.total /\ pvb'.total <= pvb'.numBytes)]_vars

\* C40: mPosition stays between 0 and mSize, before, during and after every
\* call of processVariableBlock() and whatever the processor returns, and
\* writeToStorage() copies no more than the mSize - mPosition bytes of room
\* it finds.
C40_PositionWithinStorage ==
    /\ 0 <= fbWriters["a"].mPosition
    /\ fbWriters["a"].mPosition <= fbConfig.mSize
    /\ 0 <= pvb.stored
    /\ pvb.stored <= pvb.room

\* C40, its case: a top-up was offered more bytes than storage had room for
\* and filled it, and the processor took nothing of the block: storage is
\* full when the call returns.
C40_ClippedAndFull ==
    /\ pvb.pc = "returned"
    /\ pvb.topUp = "partial"
    /\ pvb.offered > pvb.room
    /\ pvb.stored = pvb.room
    /\ pvb.bytes = 0
    /\ fbWriters["a"].mPosition = fbConfig.mSize

\* ---------------------------------------------------------------------
\* The stream mutex around the presentation-end callback
\* ---------------------------------------------------------------------

\* A thread is inside the application's presentation-end callback: the
\* executor thread, or the callback thread.
InPresentationEndCallback == taskPc = "callback" \/ loopPc = "presentationEnd"

\* C34: the application's presentation-end callback is never invoked while
\* the invoking thread holds mStreamMutex, on the executor path and on the
\* callback-loop path alike: whenever a thread is inside the callback, no
\* thread holds mStreamMutex.
C34_CallbackOutsideStreamMutex ==
    InPresentationEndCallback => mStreamMutex = "free"

\* ---------------------------------------------------------------------
\* The executor at the enqueue of setOffloadEndOfStream()
\* ---------------------------------------------------------------------

\* The last call was a setOffloadEndOfStream() that went as far as the
\* enqueue on mStreamEndExecutor: accepted, on a stream without data callback.
ReachedEnqueue ==
    /\ lastCall.op = "setOffloadEndOfStream"
    /\ lastCall.result = "OK"
    /\ ~dataCallbackSet

\* C35: whenever setOffloadEndOfStream() reaches the enqueue of the background
\* wait, open() has created the executor: the optional is never dereferenced
\* while empty, whatever callbacks are registered.
C35_ExecutorPresentAtEnqueue == ReachedEnqueue => mStreamEndExecutor

\* ---------------------------------------------------------------------
\* A wake-up whose handle is not the registered one
\* ---------------------------------------------------------------------

\* This step is onWakeUp_l() for a timer other than the one of mWakeUpHandle.
MismatchedWakeUp ==
    /\ svcTimers' # svcTimers
    /\ svcTimers' \subseteq svcTimers
    /\ mWakeUpHandle \notin (svcTimers \ svcTimers')

\* C36: a wake-up notification whose handle differs from mWakeUpHandle
\* cancels nothing: it leaves mDraining, mOffloadEosPending and mWakeUpHandle
\* as they were.
C36_MismatchedWakeUpIgnored ==
    [][MismatchedWakeUp => UNCHANGED <<mDraining, mOffloadEosPending, mWakeUpHandle>>]_vars

\* ---------------------------------------------------------------------
\* advanceClientToMatchServerPosition() and the logical write position
\* ---------------------------------------------------------------------

\* write() ran its catch-up in this step (margin: one burst of the device).
CaughtUp == mNeedCatchUp /\ ~mNeedCatchUp'

\* advanceClientToMatchServerPosition() ran in this step: in
\* requestStart_l(), in onFlushFromServer(), or in the catch-up of write().
Advanced ==
    \/ state # "STARTING" /\ state' = "STARTING"
    \/ state = "FLUSHING" /\ state' = "FLUSHED"
    \/ CaughtUp

\* The frames write() put into the endpoint after its catch-up.
WrittenAfterAdvance == IF CaughtUp THEN lastCall'.wrote ELSE 0

\* C37: advanceClientToMatchServerPosition() keeps the logical write
\* position: the endpoint's write counter plus mFramesOffsetFromService is the
\* same after it as before it (a write() that caught up adds the frames it
\* wrote afterwards), whatever the margin and the counters.
C37_AdvanceKeepsWritePosition ==
    [][Advanced => wr' + mFramesOffsetFromService'
                     = wr + mFramesOffsetFromService + WrittenAfterAdvance]_vars

\* A write() caught up while the write counter was behind the read counter
\* plus the margin: the offset from the service went below zero.
C37_CaughtUpFromBehind ==
    /\ lastCall.op = "write"
    /\ ~mNeedCatchUp
    /\ mFramesOffsetFromService < 0
    /\ wr + mFramesOffsetFromService >= 0

\* ---------------------------------------------------------------------
\* writeNowWithConversion(): the copy through the flow graph
\* ---------------------------------------------------------------------

\* flowgraph::kDefaultBufferSize, the frames of one buffer of the flow graph.
kDefaultBufferSize == 8

\* WrappingBuffer::SIZE, the parts of a wrapping buffer.
WrappingBufferSize == 2

\* The wrapping buffers getEmptyFramesAvailable() returns: the frames of the
\* two parts of the empty space; the second part is used only after the first.
WrappingBuffers ==
    {nf \in (0..MaxPartFrames) \X (0..MaxSecondPart) : nf[1] = 0 => nf[2] = 0}

\* What mFlowGraph.pull() and mFlowGraph.process() may return for an output
\* of space frames: a flow graph that keeps to the space it is given.
FlowGraphReturns(space) == 0..space

\* The frames the inner loop takes from the caller's buffer in one round:
\* one buffer of the flow graph, or one frame when the part is running low.
FramesToWriteAlwaysBuffer(available, framesLeft) == kDefaultBufferSize
FramesToWriteFromByteBuffer(available, framesLeft) ==
    IF available < kDefaultBufferSize THEN 1 ELSE Min(kDefaultBufferSize, framesLeft)

\* The frame of the steps of writeNowWithConversion().
ConvFrame ==
    UNCHANGED <<configVars, loopVars, openVars, fbVars, state, handleValid, clockVars,
                mNeedCatchUp, mFramesOffsetFromService, mLastFramesRead,
                mLastFramesWritten, rd, mOffloadEosPending, drainVars, execVars,
                aborted, lastCall, peVars>>

\* Entry: getEmptyFramesAvailable() fills the wrapping buffer (numFrames of
\* its parts: parts), nothing is written yet.
WriteNowEnter(numFrames, parts) ==
    /\ Callable
    /\ wnwc = NoCopy
    /\ wnwc' = [pc |-> "part", numFrames |-> numFrames, parts |-> parts, at |-> wr,
                framesLeftInByteBuffer |-> numFrames, partIndex |-> 0,
                available |-> 0, framesWritten |-> 0, result |-> 0]
    /\ UNCHANGED wr
    /\ ConvFrame

\* The head of the outer loop: with frames left and a part left, the part's
\* room is read and, if there is room, the flow graph's residual frames are
\* pulled into it (pulled: the result of pull()); without room the loop is
\* left.
PullResidual(pulled) ==
    /\ wnwc.pc = "part"
    /\ IF wnwc.framesLeftInByteBuffer > 0 /\ wnwc.partIndex < WrappingBufferSize
       THEN LET room == wnwc.parts[wnwc.partIndex + 1]
            IN  IF room > 0
                THEN /\ pulled \in FlowGraphReturns(room)
                     /\ wnwc' = [wnwc EXCEPT !.pc = "process",
                                             !.available = room - pulled,
                                             !.framesWritten = @ + pulled]
                ELSE /\ pulled = 0
                     /\ wnwc' = [wnwc EXCEPT !.pc = "advance", !.available = room]
       ELSE /\ pulled = 0
            /\ wnwc' = [wnwc EXCEPT !.pc = "advance"]
    /\ UNCHANGED wr
    /\ ConvFrame

\* One round of the inner loop: frames of the caller's buffer go through
\* process(), which returns the frames it put into the part (processed);
\* when the part is full or the buffer is used up, the next part is taken.
ProcessBuffer(processed) ==
    /\ wnwc.pc = "process"
    /\ IF wnwc.available > 0 /\ wnwc.framesLeftInByteBuffer > 0
       THEN /\ processed \in FlowGraphReturns(wnwc.available)
            /\ wnwc' = [wnwc EXCEPT
                  !.framesLeftInByteBuffer =
                      @ - FramesToWriteFromByteBuffer(wnwc.available, @),
                  !.available = @ - processed,
                  !.framesWritten = @ + processed]
       ELSE /\ processed = 0
            /\ wnwc' = [wnwc EXCEPT !.pc = "part", !.partIndex = @ + 1]
    /\ UNCHANGED wr
    /\ ConvFrame

\* advanceWriteIndex(framesWrittenToAudioEndpoint) and the return of the
\* frames read from the caller.
AdvanceWriteIndex ==
    /\ wnwc.pc = "advance"
    /\ wr' = wr + wnwc.framesWritten
    /\ wnwc' = [wnwc EXCEPT !.pc = "returned",
                            !.result = wnwc.numFrames - wnwc.framesLeftInByteBuffer]
    /\ ConvFrame

InitConv == (\E dcs \in BOOLEAN : Opened(dcs, TRUE)) /\ NoCallers

NextConv ==
    \/ \E numFrames \in 0..MaxConvFrames, parts \in WrappingBuffers :
          WriteNowEnter(numFrames, parts)
    \/ \E pulled \in 0..MaxPartFrames : PullResidual(pulled)
    \/ \E processed \in 0..MaxPartFrames : ProcessBuffer(processed)
    \/ AdvanceWriteIndex

SpecConv == InitConv /\ [][NextConv]_vars

\* The empty frames of the endpoint at the entry of the call.
EmptyAtEntry == wnwc.parts[1] + wnwc.parts[2]

\* C38: with a flow graph that never produces more frames than the space it
\* is given, writeNowWithConversion() advances the write counter by at most
\* the empty frames available at entry, returns a value between 0 and
\* numFrames, and with no empty frames returns 0 and leaves the write counter
\* where it was.
C38_WriteNowWithinSpace ==
    wnwc.pc = "returned" =>
        /\ wr - wnwc.at \in 0..EmptyAtEntry
        /\ wnwc.result \in 0..wnwc.numFrames
        /\ EmptyAtEntry = 0 => (wnwc.result = 0 /\ wr = wnwc.at)

\* A call that took a whole buffer of the flow graph in one round, went on
\* into the second part and filled the empty space.
C38_FilledBothParts ==
    /\ wnwc.pc = "returned"
    /\ wnwc.parts[1] >= kDefaultBufferSize
    /\ wnwc.parts[2] > 0
    /\ wnwc.partIndex = WrappingBufferSize
    /\ wr - wnwc.at = EmptyAtEntry
    /\ wnwc.result = wnwc.numFrames

====
